---------------------------- MODULE Spec2Model ----------------------------
(***************************************************************************)
(* CompositeJK (psi4/libfock/CompositeJK.cc): construction (common_init),  *)
(* the incremental-Fock controller (compute_JK, incfock_setup,             *)
(* incfock_postiter) and the J/K builders seen as maps of their reference  *)
(* density.                                                                *)
(*                                                                         *)
(* The test system is two orbital shells of one function each on two       *)
(* centers and two auxiliary functions.  Integrals are small integers with *)
(* the permutational symmetry of the real ones, so every contraction is    *)
(* exact and "within tolerance" becomes equality.                          *)
(***************************************************************************)
EXTENDS Integers, Sequences, FiniteSets, TLC

VARIABLES
    status,                     \* "new" | "ready" | "failed" | "aborted"
    options_,                   \* the Options object read by the class
    incfock_, incfock_count_, do_incfock_iter_,
    j_type_, k_type_,
    initial_iteration_,
    do_J_, do_K_, do_wK_, lr_symmetric_,
    D_ao_, D_ref_, D_prev_,
    J_ao_, K_ao_,
    Dnorm,                      \* Process::environment.globals["SCF D NORM"]
    computed_shells_per_iter_,
    bench_,                     \* JK::get_bench(): statistics are recorded
    num_computed_shells_,
    last_call,                  \* the member function that returned last
    iteration_kind,             \* branch taken by the last compute_JK
    iters_since_full,           \* compute_JK iterations since the last full build
    build                       \* the builder call in progress, step by step

vars == <<status, options_, incfock_, incfock_count_, do_incfock_iter_,
          j_type_, k_type_, initial_iteration_, do_J_, do_K_, do_wK_,
          lr_symmetric_, D_ao_, D_ref_, D_prev_, J_ao_, K_ao_, Dnorm,
          computed_shells_per_iter_, bench_, num_computed_shells_, last_call,
          iteration_kind, iters_since_full, build>>

----------------------------------------------------------------------------
(* Bounds of the model *)

\* compute_JK is not called once incfock_count_ has reached this value
MaxCount == 4

\* no density is set once a statistic has this many entries
MaxBench == 2

----------------------------------------------------------------------------
(* Strings.  A string is a sequence of tokens; "+" is the separator       *)
(* character and every other token stands for a run of letters.           *)

\* std::string::npos: the all-ones size_t, so that npos + 1 == 0
npos == -1

\* std::string::rfind(c): the position of the last c
rfind(s, c) ==
    IF \E i \in 1..Len(s) : s[i] = c
    THEN (CHOOSE i \in 1..Len(s) : s[i] = c /\ \A k \in (i + 1)..Len(s) : s[k] # c) - 1
    ELSE npos

\* std::string::find(c): 0-based position of the first c, npos if absent
find(s, c) ==
    IF \E i \in 1..Len(s) : s[i] = c
    THEN (CHOOSE i \in 1..Len(s) : s[i] = c /\ \A k \in 1..(i - 1) : s[k] # c) - 1
    ELSE npos

\* std::string::substr(pos, n): the characters [pos, min(pos + n, size));
\* n is a size_t, so npos is larger than any size
substr(s, pos, n) ==
    LET last == IF n = npos \/ pos + n > Len(s) THEN Len(s) ELSE pos + n
    IN  SubSeq(s, pos + 1, last)

DFDIRJ == <<"DFDIRJ">>
LINK == <<"LINK">>
COSX == <<"COSX">>
NONE == <<"NONE">>

\* j_type_ = jk_type.substr(0, jk_type.find("+"))
ParseJ(jk_type) == substr(jk_type, 0, find(jk_type, "+"))

\* k_type_ = jk_type.substr(jk_type.find("+") + 1, jk_type.length()),
\* then NONE when it equals j_type_
ParseKRaw(jk_type) == substr(jk_type, find(jk_type, "+") + 1, Len(jk_type))

ParseK(jk_type) ==
    IF ParseKRaw(jk_type) = ParseJ(jk_type) THEN NONE ELSE ParseKRaw(jk_type)

----------------------------------------------------------------------------
(* Basis, integrals and dense matrices *)

Shells == {1, 2}                    \* primary_: one function per shell
BF == {1, 2}                        \* basis functions of primary_
AUX == {1, 2}                       \* basis functions of auxiliary_
Grid == {1, 2}                      \* quadrature points of the COSX grid

FunctionsOf(M) == {M}

RECURSIVE SumFn(_)
SumFn(f) ==
    IF DOMAIN f = {} THEN 0
    ELSE LET x == CHOOSE x \in DOMAIN f : TRUE
         IN  f[x] + SumFn([y \in (DOMAIN f) \ {x} |-> f[y]])

\* (p|mn), symmetric in m, n
Eri3(p, m, n) == IF m = n THEN m + p - 1 ELSE 1

\* (ml|ns), symmetric in m<->l, n<->s and (ml)<->(ns)
PairValue(m, l) == IF m = l THEN m + 1 ELSE 1

Eri4(m, l, n, s) == PairValue(m, l) * PairValue(n, s)

\* the Coulomb fitting metric J_metric_ of the auxiliary basis (diagonal here)
J_metric(p, q) == IF p = q THEN 1 ELSE 0

\* basis function values at the grid points, scaled by sqrt|w| (X_block)
Xval(g, mu) == IF g = mu THEN 2 ELSE 1

\* one-electron "pseudospectral" integral A_{nu tau} at grid point g
Aval(g, nu, tau) == IF nu = tau THEN 2 * g ELSE 2

ZeroMatrix == [m \in BF, n \in BF |-> 0]

MatAdd(A, B) == [m \in BF, n \in BF |-> A[m, n] + B[m, n]]

\* the operands of subtract exchanged
MatSubtract_swapped(A, B) == [m \in BF, n \in BF |-> B[m, n] - A[m, n]]

\* Matrix::subtract
MatSubtract(A, B) == [m \in BF, n \in BF |-> A[m, n] - B[m, n]]

\* Matrix::hermitivitize: (A + A^T) / 2
hermitivitize(A) == [m \in BF, n \in BF |-> (A[m, n] + A[n, m]) \div 2]


Zeros(njk) == [jki \in 1..njk |-> ZeroMatrix]

Range(s) == {s[i] : i \in 1..Len(s)}

\* the densities the caller supplies: symmetric matrices, one or two channels
SymMatrix(a, b, c) ==
    [m \in BF, n \in BF |-> IF m # n THEN b ELSE IF m = 1 THEN a ELSE c]

DensitySamples == {SymMatrix(1, 0, 1), SymMatrix(2, 1, 0)}

\* the reference densities a build can be handed: a density of the caller
\* or the difference of two, in one or two channels
ReferenceDensityValues ==
    DensitySamples \cup {[m \in BF, n \in BF |-> A[m, n] - B[m, n]] :
                            A \in DensitySamples, B \in DensitySamples}

ReferenceDensities ==
    {<<A>> : A \in ReferenceDensityValues}
    \cup {<<A, B>> : A \in ReferenceDensityValues, B \in ReferenceDensityValues}

Max(S) == CHOOSE x \in S : \A y \in S : y <= x

Abs(x) == IF x < 0 THEN -x ELSE x

\* std::sqrt, on the perfect squares that the bounds of the model are
Sqrt(x) == CHOOSE r \in 0..x : r * r = x

----------------------------------------------------------------------------
(* Shared pointers to matrices.  D_ao_ owns the density objects, which    *)
(* the caller updates in place; a std::shared_ptr<Matrix> held elsewhere  *)
(* either points at one of them (shared) or at an object of its own, as   *)
(* Matrix::clone returns.                                                 *)

Own(A) == [shared |-> FALSE, idx |-> 0, val |-> A]

Shared(i) == [shared |-> TRUE, idx |-> i, val |-> ZeroMatrix]

Deref(r) == IF r.shared THEN D_ao_[r.idx] ELSE r.val

DerefAll(refs) == [i \in 1..Len(refs) |-> Deref(refs[i])]

\* D_ref_ = D_ao_: a copy of the vector of pointers
SharePointers(D) == [i \in 1..Len(D) |-> Shared(i)]

\* the objects a vector of pointers keeps alive when D_ao_ is reallocated
Detach(refs) == [i \in 1..Len(refs) |-> Own(Deref(refs[i]))]

----------------------------------------------------------------------------
(* The builders.  Each adds its contraction of the reference density into *)
(* the output matrices it is handed.                                      *)

\* auxiliary_: one function per shell
AuxShells == AUX

AuxFunctionsOf(P) == {P}

\* eri_computers_["3-Center"][rank]->shell_pairs()
shell_pairs == {MN \in Shells \X Shells : MN[2] <= MN[1]}

\* eri_computers_["3-Center"][rank]->shell_pair_value(M, N)
shell_pair_value3(M, N) ==
    Max({PairValue(m, n) * PairValue(m, n) : m \in FunctionsOf(M), n \in FunctionsOf(N)})

\* the index space of the triplet loops: MNP in 0..nshelltriplet-1
Triplets == shell_pairs \X AuxShells

\* shell_pairs() with the functions of both shells: the index space of the
\* inner loops of build_DirectDFJ
PairTerms ==
    {t \in Shells \X Shells \X BF \X BF :
        <<t[1], t[2]>> \in shell_pairs /\ t[3] \in FunctionsOf(t[1]) /\ t[4] \in FunctionsOf(t[2])}

\* INTS_TOLERANCE squared, in units of the bounds: below every bound that is
\* not zero
thresh2 == 1

\* diagonal shell maxima of J_metric_
J_metric_shell_diag(P) == Max({0} \cup {J_metric(bf, bf) : bf \in AuxFunctionsOf(P)})

\* shell maxima of D over all channels
Dshell(D) ==
    [M \in Shells, N \in Shells |->
        Max({0} \cup {Abs(D[jki][m, n]) :
                        jki \in DOMAIN D, m \in FunctionsOf(M), n \in FunctionsOf(N)})]

\* the density bound not squared
ForwardSkips_unsquared(Dshellp, th, M, N, P) ==
    Dshellp[M, N] * J_metric_shell_diag(P) * shell_pair_value3(M, N) < th

\* the test of the first contraction: true when the triplet is skipped
ForwardSkips(Dshellp, th, M, N, P) ==
    Dshellp[M, N] * Dshellp[M, N] * J_metric_shell_diag(P) * shell_pair_value3(M, N) < th

\* the triplets the first contraction evaluates: those its test does not skip
Triplets1(D) ==
    {t \in Triplets : ~ForwardSkips(Dshell(D), thresh2, t[1][1], t[1][2], t[2])}

\* first contraction: G_p = D_mn (mn|p), both triangles when N != M
GVector(D, jki) ==
    [p \in AUX |->
        SumFn([t \in {t \in PairTerms :
                        \E P \in AuxShells : /\ p \in AuxFunctionsOf(P)
                                             /\ <<<<t[1], t[2]>>, P>> \in Triplets1(D)} |->
            Eri3(p, t[3], t[4]) * D[jki][t[3], t[4]]
            + (IF t[2] # t[1] THEN Eri3(p, t[3], t[4]) * D[jki][t[4], t[3]] ELSE 0)])]

\* second contraction: C_DGESV solves J_metric_ H = G
HVector(G) == [p \in AUX |-> G[p] \div J_metric(p, p)]

\* the shell maxima of H left as they were before the solve
H_shell_max_stale(H) == [P \in AuxShells |-> 0]

\* shell maxima of H over all channels
H_shell_max(H) ==
    [P \in AuxShells |->
        Max({0} \cup {Abs(H[jki][p]) : jki \in DOMAIN H, p \in AuxFunctionsOf(P)})]

\* the test of the third contraction: true when the triplet is skipped
BackSkips(H_shell_maxp, th, M, N, P) ==
    H_shell_maxp[P] * H_shell_maxp[P] * J_metric_shell_diag(P) * shell_pair_value3(M, N) < th

\* the triplets the third contraction evaluates
Triplets2(H) ==
    {t \in Triplets : ~BackSkips(H_shell_max(H), thresh2, t[1][1], t[1][2], t[2])}

\* third contraction: J_mn = H_p (mn|p), both triangles when N != M
JTMatrix(H, jki) ==
    LET terms == {t \in PairTerms \X AUX :
                    \E P \in AuxShells : /\ t[2] \in AuxFunctionsOf(P)
                                         /\ <<<<t[1][1], t[1][2]>>, P>> \in Triplets2(H)}
    IN  [a \in BF, b \in BF |->
            SumFn([t \in terms |->
                (IF <<a, b>> = <<t[1][3], t[1][4]>>
                 THEN Eri3(t[2], t[1][3], t[1][4]) * H[jki][t[2]] ELSE 0)
                + (IF t[1][2] # t[1][1] /\ <<a, b>> = <<t[1][4], t[1][3]>>
                   THEN Eri3(t[2], t[1][3], t[1][4]) * H[jki][t[2]] ELSE 0)])]

\* H of every channel
HVectors(D) == [jki \in DOMAIN D |-> HVector(GVector(D, jki))]

\* only the first contraction counted
DFJ_computed_shells_first(D) == Cardinality(Triplets1(D))

\* num_computed_shells_ = computed_triplets1 + computed_triplets2
DFJ_computed_shells(D) == Cardinality(Triplets1(D)) + Cardinality(Triplets2(HVectors(D)))

\* the three contractions of build_DirectDFJ on each reference density of the
\* test system (ReferenceDensities below), evaluated once
DFJ_tasks ==
    [D \in ReferenceDensities |->
        [JT |-> [jki \in DOMAIN D |-> JTMatrix(HVectors(D), jki)],
         computed_shells |-> DFJ_computed_shells(D)]]

\* J[jki]->add(JT[jki][thread]); J[jki]->hermitivitize()
build_DirectDFJ(D, J) ==
    [jki \in DOMAIN J |->
        IF jki \in DOMAIN D
        THEN hermitivitize(MatAdd(J[jki], DFJ_tasks[D].JT[jki]))
        ELSE J[jki]]

\* the exchange matrix of a density: K_mn = D_ls (ml|ns)
KLinK(D) ==
    [m \in BF, n \in BF |->
        SumFn([ls \in BF \X BF |-> D[ls[1], ls[2]] * Eri4(m, ls[1], n, ls[2])])]

----------------------------------------------------------------------------
(* The four-center integral engine (TwoBodyAOInt) as build_linK uses it.  *)
(* A LinK build reads a record x: x.pv[m, l] is the magnitude of the pair *)
(* (ml| so that (ml|ns) = x.pv[m, l] * x.pv[n, s], x.D are the densities  *)
(* the engine was updated with, x.cutoff_ and x.linK_ints_cutoff_ are the *)
(* tolerances.                                                            *)

nshell == Cardinality(Shells)

\* primary_->shell(P).ncenter(): every shell sits on an atom of its own
ncenter(P) == P

Atoms == {ncenter(P) : P \in Shells}

ShellsOfAtom(atom) == {P \in Shells : ncenter(P) = atom}

\* the buffer of compute_shell(P, Q, R, S) at the functions p, q, r, s
Integral(x, p, q, r, s) == x.pv[p, q] * x.pv[r, s]

\* the largest (pq|pq) of a shell pair
shell_pair_value(x, P, Q) ==
    Max({x.pv[p, q] * x.pv[p, q] : p \in FunctionsOf(P), q \in FunctionsOf(Q)})

\* the Schwarz bound of (PQ|RS), squared
shell_ceiling2(x, P, Q, R, S) == shell_pair_value(x, P, Q) * shell_pair_value(x, R, S)

max_integral(x) == Max({shell_pair_value(x, P, Q) : P \in Shells, Q \in Shells})

\* the largest density element of a shell pair over all channels
shell_pair_max_density(x, P, R) ==
    Max({0} \cup {Abs(x.D[ind][p, r]) :
                    ind \in DOMAIN x.D, p \in FunctionsOf(P), r \in FunctionsOf(R)})

\* the square of schwarz_value = sqrt(pq_pq * max_integral); squares compare
\* and sort as their roots do
schwarz_value2(x, P, Q) == Sqrt(shell_ceiling2(x, P, Q, P, Q)) * max_integral(x)

shell_pair_significant(x, P, Q) == schwarz_value2(x, P, Q) >= x.cutoff_ * x.cutoff_

shell_significant(x, P, Q, R, S) == shell_ceiling2(x, P, Q, R, S) >= x.cutoff_ * x.cutoff_

\* compute_shell returns the number of integrals it evaluated
compute_shell(x, P, Q, R, S) == IF shell_ceiling2(x, P, Q, R, S) = 0 THEN 0 ELSE 1

----------------------------------------------------------------------------
(* build_linK: pre-ordering and pre-selection *)

Orders(S) ==
    {s \in [1..Cardinality(S) -> S] : \A i, j \in 1..Cardinality(S) : i # j => s[i] # s[j]}

\* std::sort with screen_compare: any order with non-increasing values
SortedOrders(S, value(_)) ==
    {s \in Orders(S) : \A i \in 1..(Len(s) - 1) : value(s[i]) >= value(s[i + 1])}

\* significant_bras[P] as the first parallel loop can leave it
significant_bras_of(x, P) ==
    SortedOrders({Q \in Shells : schwarz_value2(x, P, Q) >= x.cutoff_ * x.cutoff_},
                 LAMBDA Q : schwarz_value2(x, P, Q))

\* val of the ceiling loop
ceiling_val(x, P, Q) == Sqrt(shell_ceiling2(x, P, Q, P, Q))

\* shell_ceilings when no update of the ceiling loop is lost
shell_ceilings_of(x) ==
    [X \in Shells |->
        Max({0} \cup {ceiling_val(x, X, Q) : Q \in {Q \in Shells : Q <= X}}
                \cup {ceiling_val(x, P, X) : P \in {P \in Shells : P >= X}})]

ket_screen_val(x, c, P, R) == c[P] * c[R] * shell_pair_max_density(x, P, R)

\* significant_kets[P] as the third parallel loop can leave it
significant_kets_of(x, c, P) ==
    SortedOrders({R \in Shells : ket_screen_val(x, c, P, R) >= x.linK_ints_cutoff_},
                 LAMBDA R : ket_screen_val(x, c, P, R))

\* the tables a build can end up with, given the ceilings
ScreeningTables(x, c) ==
    {s \in [shell_ceilings : {c},
            significant_bras : [Shells -> UNION {significant_bras_of(x, P) : P \in Shells}],
            significant_kets : [Shells -> UNION {significant_kets_of(x, c, P) : P \in Shells}]] :
        \A P \in Shells : /\ s.significant_bras[P] \in significant_bras_of(x, P)
                          /\ s.significant_kets[P] \in significant_kets_of(x, c, P)}

----------------------------------------------------------------------------
(* build_linK: the mini-lists of a bra shell pair *)

\* R * nshell + S, with the shells counted from 1
ShellIndex(R, S) == (R - 1) * nshell + (S - 1)

CanonicalRS(R, S) == IF R >= S THEN ShellIndex(R, S) ELSE ShellIndex(S, R)

\* the elements a scan visits before its break
PassingPrefix(seq, Pass(_)) ==
    SubSeq(seq, 1, Max({k \in 0..Len(seq) : \A i \in 1..k : Pass(seq[i])}))

\* screen_val of the scan of T's ket list (T is P or Q)
screen_val(x, T, P, Q, R, S) ==
    shell_pair_max_density(x, T, R) * Sqrt(shell_ceiling2(x, P, Q, R, S))

\* an S-scan that stops after its first passing S
ScannedS_first(x, s, T, P, Q, R) ==
    LET pass(S) == screen_val(x, T, P, Q, R, S) >= x.linK_ints_cutoff_
    IN  IF s.significant_bras[R] # <<>> /\ pass(Head(s.significant_bras[R]))
        THEN <<Head(s.significant_bras[R])>> ELSE <<>>

\* the S of significant_bras[R] that pass before the S-scan breaks
ScannedS(x, s, T, P, Q, R) ==
    PassingPrefix(s.significant_bras[R],
                  LAMBDA S : screen_val(x, T, P, Q, R, S) >= x.linK_ints_cutoff_)

\* the R of significant_kets[T] reached before the R-scan breaks
ScannedR(x, s, T, P, Q) ==
    PassingPrefix(s.significant_kets[T], LAMBDA R : Len(ScannedS(x, s, T, P, Q, R)) > 0)

\* the (R, S) that pass in the scan of T's list and are not skipped by
\* if (RS > P * nshell + Q) continue
Kept(x, s, T, P, Q) ==
    {rs \in UNION {{<<R, S>> : S \in Range(ScannedS(x, s, T, P, Q, R))} :
                     R \in Range(ScannedR(x, s, T, P, Q))} :
        CanonicalRS(rs[1], rs[2]) <= ShellIndex(P, Q)}

\* ML_PQ: the merge of the mini-lists ML_P and ML_Q
ML_PQ(x, s, P, Q) ==
    {CanonicalRS(rs[1], rs[2]) : rs \in Kept(x, s, P, P, Q) \cup Kept(x, s, Q, P, Q)}

----------------------------------------------------------------------------
(* build_linK: one atom-pair task *)

\* atom_pairs
atom_pairs(x) ==
    {ap \in Atoms \X Atoms :
        /\ ap[2] <= ap[1]
        /\ \E P \in ShellsOfAtom(ap[1]), Q \in ShellsOfAtom(ap[2]) :
               shell_pair_significant(x, P, Q)}

\* the bra shell pairs the task loops over
BraPairs(x, ap) ==
    {pq \in ShellsOfAtom(ap[1]) \X ShellsOfAtom(ap[2]) :
        pq[2] <= pq[1] /\ shell_pair_significant(x, pq[1], pq[2])}

\* the quartets whose integrals the task evaluates
Quartets(x, s, ap) ==
    {t \in Shells \X Shells \X Shells \X Shells :
        /\ <<t[1], t[2]>> \in BraPairs(x, ap)
        /\ t[4] <= t[3]
        /\ ShellIndex(t[3], t[4]) \in ML_PQ(x, s, t[1], t[2])
        /\ shell_pair_significant(x, t[3], t[4])
        /\ shell_significant(x, t[1], t[2], t[3], t[4])
        /\ compute_shell(x, t[1], t[2], t[3], t[4]) # 0}

\* the prefactor without the half for (P, Q) = (R, S)
prefactor8_no_pair(P, Q, R, S) ==
    (IF P = Q THEN 1 ELSE 2) * (IF R = S THEN 1 ELSE 2) * 2

\* prefactor, in eighths
prefactor8(P, Q, R, S) ==
    (IF P = Q THEN 1 ELSE 2) * (IF R = S THEN 1 ELSE 2) * (IF P = R /\ Q = S THEN 1 ELSE 2)

\* the function quadruples of the evaluated quartets
QuartetTerms(x, s, ap) ==
    {t \in Quartets(x, s, ap) \X BF \X BF \X BF \X BF :
        /\ t[2] \in FunctionsOf(t[1][1]) /\ t[3] \in FunctionsOf(t[1][2])
        /\ t[4] \in FunctionsOf(t[1][3]) /\ t[5] \in FunctionsOf(t[1][4])}

\* the local buffers K1p..K4p of the task after its quartet loop, in
\* eighths: sub-block b (1: PR, 2: PS, 3: QR, 4: QS) at row m, column n
LocalK(x, s, ap, ind) ==
    LET terms == QuartetTerms(x, s, ap)
        w(t) == prefactor8(t[1][1], t[1][2], t[1][3], t[1][4])
                    * Integral(x, t[2], t[3], t[4], t[5])
        Dp == x.D[ind]
    IN  [b \in 1..4, m \in BF, n \in BF |->
            SumFn([t \in terms |->
                IF b = 1 /\ m = t[2] /\ n = t[4] THEN w(t) * Dp[t[3], t[5]]
                ELSE IF b = 2 /\ m = t[2] /\ n = t[5] THEN w(t) * Dp[t[3], t[4]]
                ELSE IF b = 3 /\ m = t[3] /\ n = t[4] THEN w(t) * Dp[t[2], t[5]]
                ELSE IF b = 4 /\ m = t[3] /\ n = t[5] THEN w(t) * Dp[t[2], t[4]]
                ELSE 0])]

\* P_stripeout_list[dP]: filled while the list of Q is scanned
P_stripeout_list(x, s, ap, P) ==
    UNION {{rs[2] : rs \in Kept(x, s, pq[2], pq[1], pq[2])} :
             pq \in {pq \in BraPairs(x, ap) : pq[1] = P}}

\* Q_stripeout_list[dQ]: filled while the list of P is scanned
Q_stripeout_list(x, s, ap, Q) ==
    UNION {{rs[2] : rs \in Kept(x, s, pq[1], pq[1], pq[2])} :
             pq \in {pq \in BraPairs(x, ap) : pq[2] = Q}}

\* the elements of K the stripeout of the task writes through its P rows
PStripeoutSet(x, s, ap) ==
    {mn \in BF \X BF :
        \E P \in ShellsOfAtom(ap[1]) :
            /\ mn[1] \in FunctionsOf(P)
            /\ \E S \in P_stripeout_list(x, s, ap, P) : mn[2] \in FunctionsOf(S)}

\* ... and through its Q rows
QStripeoutSet(x, s, ap) ==
    {mn \in BF \X BF :
        \E Q \in ShellsOfAtom(ap[2]) :
            /\ mn[1] \in FunctionsOf(Q)
            /\ \E S \in Q_stripeout_list(x, s, ap, Q) : mn[2] \in FunctionsOf(S)}

\* if (!touched) continue
touched(x, s, ap) == Quartets(x, s, ap) # {}

\* a stripeout that adds every element of the buffers
Stripeout_all(x, s, ap, ind) ==
    LET KTp == LocalK(x, s, ap, ind)
    IN  [m \in BF, n \in BF |->
            2 * (KTp[1, m, n] + KTp[2, m, n] + KTp[3, m, n] + KTp[4, m, n])]

\* what the stripeout of the task adds to K[ind], in eighths: the buffers
\* scaled by 2, at the elements of the stripeout lists only
Stripeout(x, s, ap, ind) ==
    IF ~touched(x, s, ap) THEN [m \in BF, n \in BF |-> 0]
    ELSE LET KTp == LocalK(x, s, ap, ind)
             rowsP == PStripeoutSet(x, s, ap)
             rowsQ == QStripeoutSet(x, s, ap)
         IN  [m \in BF, n \in BF |->
                 (IF <<m, n>> \in rowsP THEN 2 * (KTp[1, m, n] + KTp[2, m, n]) ELSE 0)
                 + (IF <<m, n>> \in rowsQ THEN 2 * (KTp[3, m, n] + KTp[4, m, n]) ELSE 0)]

\* computed_shells of the whole task list
computed_shells(x, s) ==
    SumFn([ap \in atom_pairs(x) |-> Cardinality(Quartets(x, s, ap))])

\* what the stripeouts of all tasks add to K[ind], in eighths
StripeoutSum(x, s, ind) ==
    LET strip == [ap \in atom_pairs(x) |-> Stripeout(x, s, ap, ind)]
    IN  [m \in BF, n \in BF |-> SumFn([ap \in atom_pairs(x) |-> strip[ap][m, n]])]

\* K[ind] after the stripeouts that added sum and Kmat->hermitivitize(),
\* in eighths
Hermitivitized8(K, sum) ==
    [m \in BF, n \in BF |-> (8 * K[m, n] + sum[m, n] + 8 * K[n, m] + sum[n, m]) \div 2]

----------------------------------------------------------------------------
(* The engine and the tolerances of the test system *)

\* INTS_TOLERANCE, in units of the integrals: below every bound that is
\* not zero
cutoff_ == 1

\* LINK_INTS_TOLERANCE is left alone: linK_ints_cutoff_ = cutoff_
linK_ints_cutoff_ == cutoff_

\* the engine after update_density(D_ref_)
Engine(D) ==
    [pv |-> [m \in BF, l \in BF |-> PairValue(m, l)], D |-> D,
     cutoff_ |-> cutoff_, linK_ints_cutoff_ |-> linK_ints_cutoff_]

\* the tables of a build on the test system
Tables(x) ==
    CHOOSE s \in ScreeningTables(x, shell_ceilings_of(x)) : TRUE

\* the task loop of build_linK on each of them, evaluated once
linK_tasks ==
    [D \in ReferenceDensities |->
        LET x == Engine(D)
            s == Tables(x)
        IN  [sum |-> [ind \in DOMAIN D |-> StripeoutSum(x, s, ind)],
             computed_shells |-> computed_shells(x, s)]]

build_linK(D, K) ==
    [ind \in DOMAIN K |->
        IF ind \in DOMAIN D
        THEN LET K8 == Hermitivitized8(K[ind], linK_tasks[D].sum[ind])
             IN  [m \in BF, n \in BF |-> K8[m, n] \div 8]
        ELSE K[ind]]

----------------------------------------------------------------------------
(* build_COSK.  Every grid point is a block of its own; every shell is    *)
(* significant at every point and the extents of all shells overlap.      *)

\* grid->blocks() and the points of a block
Blocks == Grid

PointsOf(bi) == {bi}

\* block->shells_local_to_global() and block->functions_local_to_global()
shell_map(bi) == Shells

bf_map(bi) == UNION {FunctionsOf(M) : M \in shell_map(bi)}

\* shell_extent_map[TAU]: the shells whose extents overlap that of TAU
shell_extent_map(TAU) == Shells

\* compute_esp_bound: symmetric in the two shells
esp_bound(NU, TAU) == 1

\* COSX_DENSITY_TOLERANCE and COSX_INTS_TOLERANCE, in units of the bounds:
\* only a bound that is zero fails them
dscreen == 0

kscreen == 1

\* 1 / max(1, dist_NUTAU_g): the points lie inside the extents
dist_decay(g, NU, TAU) == 1

\* shell-pair maxima of D_block over all channels
D_block_shell(D, bi) ==
    [TAU \in Shells, KAPPA \in shell_map(bi) |->
        Max({0} \cup {Abs(D[jki][bf1, bf2]) :
                        jki \in DOMAIN D, bf1 \in FunctionsOf(TAU), bf2 \in FunctionsOf(KAPPA)})]

\* the significant TAU shells of the block
shell_map_tau(D, bi) ==
    {TAU \in Shells : \E KAPPA \in shell_map(bi) : D_block_shell(D, bi)[TAU, KAPPA] > dscreen}

X_block_bfmax(g, bi) == Max({0} \cup {Abs(Xval(g, k)) : k \in bf_map(bi)})

X_block_max(bi) == Max({X_block_bfmax(g, bi) : g \in PointsOf(bi)})

\* F = X D_block^T on the grid block
FBlock(D, jki, bi) ==
    [g \in PointsOf(bi), tau \in BF |->
        SumFn([kappa \in bf_map(bi) |-> Xval(g, kappa) * D[jki][tau, kappa]])]

\* shell maxima of F_block at a point, over all channels
F_block_shell(D, bi) ==
    [g \in PointsOf(bi), TAU \in Shells |->
        Max({0} \cup {Abs(FBlock(D, jki, bi)[g, tau]) :
                        jki \in DOMAIN D, tau \in FunctionsOf(TAU)})]

\* ... and over the points of the block
F_block_gmax(D, bi) ==
    [TAU \in Shells |-> Max({F_block_shell(D, bi)[g, TAU] : g \in PointsOf(bi)})]

\* can the (NU|TAU) integral stand for (TAU|NU) as well?
symm(D, bi, NU, TAU) == NU # TAU /\ NU \in shell_map_tau(D, bi)

\* the shell pairs <<TAU, NU>> of the block that reach the screening tests:
\* int_shells_total counts the points of each
CandidatePairs(D, bi) ==
    {tn \in Shells \X Shells :
        /\ tn[1] \in shell_map_tau(D, bi)
        /\ tn[2] \in shell_extent_map(tn[1])
        /\ ~(symm(D, bi, tn[2], tn[1]) /\ tn[1] > tn[2])}

\* k_bound of the whole block
BlockBound(D, bi, NU, TAU) ==
    LET own == X_block_max(bi) * esp_bound(NU, TAU) * F_block_gmax(D, bi)[TAU]
        other == X_block_max(bi) * esp_bound(TAU, NU) * F_block_gmax(D, bi)[NU]
    IN  IF symm(D, bi, NU, TAU) THEN Max({own, other}) ELSE own

\* k_bound of one point
PointBound(D, bi, g, NU, TAU) ==
    LET own == X_block_bfmax(g, bi) * esp_bound(NU, TAU) * dist_decay(g, NU, TAU)
                   * F_block_shell(D, bi)[g, TAU]
        other == X_block_bfmax(g, bi) * esp_bound(TAU, NU) * dist_decay(g, NU, TAU)
                     * F_block_shell(D, bi)[g, NU]
    IN  IF symm(D, bi, NU, TAU) THEN Max({own, other}) ELSE own

\* the <<TAU, NU, g>> at which compute_shell(NU, TAU) is called
EvaluatedShells(D, bi) ==
    {e \in CandidatePairs(D, bi) \X PointsOf(bi) :
        /\ ~(BlockBound(D, bi, e[1][2], e[1][1]) < kscreen)
        /\ ~(PointBound(D, bi, e[2], e[1][2], e[1][1]) < kscreen)}

\* the integral of a symmetric pair added to the row of nu only
GBlock_one_row(D, jki, bi) ==
    LET F == FBlock(D, jki, bi)
        terms == {t \in EvaluatedShells(D, bi) \X BF \X BF :
                     t[2] \in FunctionsOf(t[1][1][2]) /\ t[3] \in FunctionsOf(t[1][1][1])}
    IN  [r \in BF, g \in PointsOf(bi) |->
            SumFn([t \in {t \in terms : t[1][2] = g} |->
                IF r = t[2] THEN Aval(g, t[2], t[3]) * F[g, t[3]] ELSE 0])]

\* G_nu(g) += A_{nu tau}(g) F_tau(g), and G_tau(g) += A_{nu tau}(g) F_nu(g)
\* when symm; the grid weights are positive
GBlock(D, jki, bi) ==
    LET F == FBlock(D, jki, bi)
        terms == {t \in EvaluatedShells(D, bi) \X BF \X BF :
                     t[2] \in FunctionsOf(t[1][1][2]) /\ t[3] \in FunctionsOf(t[1][1][1])}
    IN  [r \in BF, g \in PointsOf(bi) |->
            SumFn([t \in {t \in terms : t[1][2] = g} |->
                (IF r = t[2] THEN Aval(g, t[2], t[3]) * F[g, t[3]] ELSE 0)
                + (IF symm(D, bi, t[1][1][2], t[1][1][1]) /\ r = t[3]
                   THEN Aval(g, t[2], t[3]) * F[g, t[2]] ELSE 0)])]

\* KT_block = X^T G^T
KT_block(D, jki, bi) ==
    LET G_block == GBlock(D, jki, bi)
    IN  [mu \in BF, nu \in BF |->
            IF mu \in bf_map(bi)
            THEN SumFn([g \in PointsOf(bi) |-> Xval(g, mu) * G_block[nu, g]])
            ELSE 0]

\* the sum of KT[jki][thread] over the threads: every block once
KCOSX(D, jki) ==
    [mu \in BF, nu \in BF |-> SumFn([bi \in Blocks |-> KT_block(D, jki, bi)[mu, nu]])]

\* int_shells_total and int_shells_computed
COSK_shells_total(D) ==
    SumFn([bi \in Blocks |-> Cardinality(CandidatePairs(D, bi)) * Cardinality(PointsOf(bi))])

COSK_computed_shells(D) == SumFn([bi \in Blocks |-> Cardinality(EvaluatedShells(D, bi))])

\* the grid loop of build_COSK on each reference density of the test system,
\* evaluated once
COSK_tasks ==
    [D \in ReferenceDensities |->
        [KT |-> [jki \in DOMAIN D |-> KCOSX(D, jki)],
         computed_shells |-> COSK_computed_shells(D)]]

\* the reduction without the symmetrization
build_COSK_unsymmetrized(D, K) ==
    [jki \in DOMAIN K |->
        IF jki \in DOMAIN D THEN MatAdd(K[jki], COSK_tasks[D].KT[jki]) ELSE K[jki]]

\* K[jki]->add(KT[jki][thread]); if (lr_symmetric_) K[jki]->hermitivitize()
build_COSK(D, K) ==
    [jki \in DOMAIN K |->
        IF jki \in DOMAIN D
        THEN IF lr_symmetric_
             THEN hermitivitize(MatAdd(K[jki], COSK_tasks[D].KT[jki]))
             ELSE MatAdd(K[jki], COSK_tasks[D].KT[jki])
        ELSE K[jki]]

----------------------------------------------------------------------------
(* Configuration *)

\* options_.get_double("INCFOCK_CONVERGENCE"), in units of the values that
\* "SCF D NORM" takes
INCFOCK_CONVERGENCE == 1

\* "PK" is an SCF_TYPE of the program that CompositeJK does not implement
Tokens == {"DFDIRJ", "LINK", "COSX", "NONE", "PK", "+"}

\* the values of SCF_TYPE: every string of at most three tokens
SCF_TYPES ==
    {<<>>} \cup {<<a>> : a \in Tokens} \cup {<<a, b>> : a \in Tokens, b \in Tokens}
    \cup {<<a, b, c>> : a \in Tokens, b \in Tokens, c \in Tokens}

OptionSets ==
    [INCFOCK : BOOLEAN, INCFOCK_FULL_FOCK_EVERY : -1..3, SCF_TYPE : SCF_TYPES]

Densities ==
    {<<A>> : A \in DensitySamples} \cup {<<A, B>> : A \in DensitySamples, B \in DensitySamples}

\* values of "SCF D NORM": below the convergence floor and at it
DnormValues == {0, 1}

EmptyMap == [k \in {} |-> <<>>]

\* computed_shells_per_iter_[key].push_back(n)
MapPush(map, key, n) ==
    [k \in (DOMAIN map) \cup {key} |->
        IF k = key
        THEN Append(IF key \in DOMAIN map THEN map[key] ELSE <<>>, n)
        ELSE map[k]]

\* std::map::operator[] followed by assignment of an empty vector
MapReset(map, key) ==
    [k \in (DOMAIN map) \cup {key} |-> IF k = key THEN <<>> ELSE map[k]]

----------------------------------------------------------------------------
(* Construction *)

Init ==
    /\ status = "new"
    /\ options_ \in OptionSets
    /\ incfock_ = FALSE
    /\ incfock_count_ = 0
    /\ do_incfock_iter_ = FALSE
    /\ j_type_ = <<>>
    /\ k_type_ = <<>>
    /\ initial_iteration_ = TRUE
    /\ do_J_ = TRUE
    /\ do_K_ = TRUE
    /\ do_wK_ = FALSE
    /\ lr_symmetric_ = FALSE
    /\ D_ao_ = <<>>
    /\ D_ref_ = <<>>
    /\ D_prev_ = <<>>
    /\ J_ao_ = <<>>
    /\ K_ao_ = <<>>
    /\ Dnorm = 0
    /\ computed_shells_per_iter_ = EmptyMap
    /\ bench_ = FALSE
    /\ num_computed_shells_ = 0
    /\ last_call = "none"
    /\ iteration_kind = "none"
    /\ iters_since_full = 0
    /\ build = [phase |-> "idle"]

\* the first throw of common_init: the reset cadence
InvalidFullFockEvery == options_.INCFOCK_FULL_FOCK_EVERY <= 0

\* the second throw: the J algorithm
InvalidJ(j_type) == j_type # DFDIRJ

\* the K check without the branch for NONE
InvalidK_no_none(k_type) == k_type \notin {LINK, COSX}

\* the third throw: the K algorithm
InvalidK(k_type) == k_type \notin {LINK, COSX, NONE}

\* The constructor.  A throw leaves the members assigned so far and no object.
common_init ==
    /\ status = "new"
    /\ last_call' = "common_init"
    /\ incfock_' = options_.INCFOCK
    /\ incfock_count_' = 0
    /\ do_incfock_iter_' = FALSE
    /\ IF InvalidFullFockEvery
       THEN /\ status' = "failed"
            /\ UNCHANGED <<j_type_, k_type_, computed_shells_per_iter_>>
       ELSE /\ j_type_' = ParseJ(options_.SCF_TYPE)
            /\ k_type_' = ParseK(options_.SCF_TYPE)
            /\ IF InvalidJ(j_type_')
               THEN /\ status' = "failed"
                    /\ computed_shells_per_iter_' =
                           MapReset(computed_shells_per_iter_, "Quartets")
               ELSE /\ computed_shells_per_iter_' =
                           MapReset(MapReset(computed_shells_per_iter_, "Quartets"), "Triplets")
                    /\ status' = IF InvalidK(k_type_') THEN "failed" ELSE "ready"
    /\ UNCHANGED <<build, options_, initial_iteration_, do_J_, do_K_, do_wK_,
                   lr_symmetric_, D_ao_, D_ref_, D_prev_, J_ao_, K_ao_, Dnorm,
                   bench_, num_computed_shells_, iteration_kind, iters_since_full>>

\* the driver is still configuring the object: no density has been set
Configuring == last_call \in {"common_init", "set_do_K(true)", "set_do_K(false)"}

\* the throw taken whenever no K algorithm is configured, whatever is asked
SetDoKThrows_any(do_K) == k_type_ = NONE

\* if (do_K && k_type_ == "NONE") throw
SetDoKThrows(do_K) == do_K /\ k_type_ = NONE

\* CompositeJK::set_do_K.  The branch for an unused K algorithm only prints.
set_do_K(do_K) ==
    /\ status = "ready"
    /\ Configuring
    /\ last_call' = IF do_K THEN "set_do_K(true)" ELSE "set_do_K(false)"
    /\ IF SetDoKThrows(do_K)
       THEN status' = "aborted" /\ do_K_' = do_K_
       ELSE status' = status /\ do_K_' = do_K
    /\ UNCHANGED <<build, options_, incfock_, incfock_count_, do_incfock_iter_,
                   j_type_, k_type_, initial_iteration_, do_J_, do_wK_,
                   lr_symmetric_, D_ao_, D_ref_, D_prev_, J_ao_, K_ao_, Dnorm,
                   computed_shells_per_iter_, bench_, num_computed_shells_,
                   iteration_kind, iters_since_full>>

----------------------------------------------------------------------------
(* Calls made by the SCF driver through the JK base class *)

\* JK::set_do_wK
set_do_wK(do_wK) ==
    /\ status = "ready"
    /\ Configuring \/ last_call = "set_density"
    /\ do_wK_' = do_wK
    /\ UNCHANGED <<build, status, options_, incfock_, incfock_count_, do_incfock_iter_,
                   j_type_, k_type_, initial_iteration_, do_J_, do_K_,
                   lr_symmetric_, D_ao_, D_ref_, D_prev_, J_ao_, K_ao_, Dnorm,
                   computed_shells_per_iter_, bench_, num_computed_shells_,
                   last_call, iteration_kind, iters_since_full>>

\* JK::set_bench
set_bench(bench) ==
    /\ status = "ready"
    /\ Configuring
    /\ bench_' = bench
    /\ UNCHANGED <<build, status, options_, incfock_, incfock_count_, do_incfock_iter_,
                   j_type_, k_type_, initial_iteration_, do_J_, do_K_, do_wK_,
                   lr_symmetric_, D_ao_, D_ref_, D_prev_, J_ao_, K_ao_, Dnorm,
                   computed_shells_per_iter_, num_computed_shells_, last_call,
                   iteration_kind, iters_since_full>>

\* The part of JK::compute that precedes compute_JK: the AO densities are
\* rebuilt in place (reallocated when the channel count changes), J_ao_ and
\* K_ao_ are kept index-aligned with them, the caller has declared whether
\* the exchange build is symmetric (left and right orbitals the same), and
\* the driver has published the density change of the iteration.
set_density(D, norm, lr_symmetric) ==
    /\ status = "ready"
    /\ Configuring \/ last_call = "compute_JK"
    /\ incfock_count_ < MaxCount
    /\ \A key \in DOMAIN computed_shells_per_iter_ :
           Len(computed_shells_per_iter_[key]) < MaxBench
    /\ last_call' = "set_density"
    /\ D_ao_' = D
    /\ Dnorm' = norm
    /\ lr_symmetric_' = lr_symmetric
    /\ J_ao_' = IF Len(J_ao_) = Len(D) THEN J_ao_ ELSE Zeros(Len(D))
    /\ K_ao_' = IF Len(K_ao_) = Len(D) THEN K_ao_ ELSE Zeros(Len(D))
    /\ D_ref_' = IF Len(D_ao_) = Len(D) THEN D_ref_ ELSE Detach(D_ref_)
    /\ D_prev_' = IF Len(D_ao_) = Len(D) THEN D_prev_ ELSE Detach(D_prev_)
    /\ UNCHANGED <<build, status, options_, incfock_, incfock_count_, do_incfock_iter_,
                   j_type_, k_type_, initial_iteration_, do_J_, do_K_, do_wK_,
                   computed_shells_per_iter_, bench_, num_computed_shells_,
                   iteration_kind, iters_since_full>>

----------------------------------------------------------------------------
(* The incremental-Fock controller *)

\* JK::zero
zero(M) == [i \in DOMAIN M |-> ZeroMatrix]

\* a full iteration that forgets zero()
FullSetup_no_zero(initial) ==
    [initial_iteration |-> initial, D_ref |-> SharePointers(D_ao_),
     J |-> J_ao_, K |-> K_ao_, kind |-> "full"]

\* D_ref_ = D_ao_; zero();
FullSetup(initial) ==
    [initial_iteration |-> initial, D_ref |-> SharePointers(D_ao_),
     J |-> zero(J_ao_), K |-> zero(K_ao_), kind |-> "full"]

\* an incremental iteration that zeroes the accumulators as a full one does
DeltaSetup_zeroed ==
    [initial_iteration |-> initial_iteration_,
     D_ref |-> [jki \in DOMAIN D_ref_ |->
                   IF jki \in DOMAIN D_ao_
                   THEN Own(MatSubtract(D_ao_[jki], Deref(D_prev_[jki])))
                   ELSE D_ref_[jki]],
     J |-> zero(J_ao_), K |-> zero(K_ao_), kind |-> "incremental"]

\* D_ref_[jki] = D_ao_[jki]->clone(); D_ref_[jki]->subtract(D_prev_[jki]);
DeltaSetup ==
    [initial_iteration |-> initial_iteration_,
     D_ref |-> [jki \in DOMAIN D_ref_ |->
                   IF jki \in DOMAIN D_ao_
                   THEN Own(MatSubtract(D_ao_[jki], Deref(D_prev_[jki])))
                   ELSE D_ref_[jki]],
     J |-> J_ao_, K |-> K_ao_, kind |-> "incremental"]

incfock_setup(do_incfock_iter) ==
    IF do_incfock_iter
    THEN IF initial_iteration_ \/ Len(D_prev_) # Len(D_ao_)
         THEN FullSetup(TRUE)
         ELSE DeltaSetup
    ELSE FullSetup(initial_iteration_)

\* the decision without the reset cadence
DoIncfockIter_no_cadence ==
    /\ Dnorm >= INCFOCK_CONVERGENCE
    /\ ~initial_iteration_

\* Do IFB on this iteration?
DoIncfockIter ==
    /\ Dnorm >= INCFOCK_CONVERGENCE
    /\ ~initial_iteration_
    /\ incfock_count_ % options_.INCFOCK_FULL_FOCK_EVERY
           # options_.INCFOCK_FULL_FOCK_EVERY - 1

\* the counter started again by every iteration that is not incremental
NextIncfockCount_reset ==
    IF ~initial_iteration_ /\ Dnorm >= INCFOCK_CONVERGENCE /\ DoIncfockIter
    THEN incfock_count_ + 1
    ELSE 0

\* if (!initial_iteration_ && (Dnorm >= incfock_conv)) incfock_count_ += 1;
NextIncfockCount ==
    IF ~initial_iteration_ /\ Dnorm >= INCFOCK_CONVERGENCE
    THEN incfock_count_ + 1
    ELSE incfock_count_

\* the state the builders start from: the "INCFOCK Preprocessing" of compute_JK
Preprocessed ==
    IF incfock_ THEN incfock_setup(DoIncfockIter) ELSE FullSetup(initial_iteration_)

\* push_back(Di) without the clone: the cache shares the density objects
incfock_postiter_alias == SharePointers(D_ao_)

\* the cache saved only by the iterations that build from the full density
incfock_postiter_full_only ==
    IF Preprocessed.kind = "incremental"
    THEN D_prev_
    ELSE [i \in 1..Len(D_ao_) |-> Own(D_ao_[i])]

\* D_prev_.clear(); D_prev_.push_back(Di->clone()) for every channel
incfock_postiter == [i \in 1..Len(D_ao_) |-> Own(D_ao_[i])]

\* if (do_J_) build_DirectDFJ(D_ref_, J_ao_)
BuiltJ(pre) ==
    IF do_J_ /\ j_type_ = DFDIRJ
    THEN build_DirectDFJ(DerefAll(pre.D_ref), pre.J)
    ELSE pre.J

\* if (do_K_) build_linK(D_ref_, K_ao_) or build_COSK(D_ref_, K_ao_)
BuiltK(pre) ==
    IF do_K_ /\ k_type_ = LINK THEN build_linK(DerefAll(pre.D_ref), pre.K)
    ELSE IF do_K_ /\ k_type_ = COSX THEN build_COSK(DerefAll(pre.D_ref), pre.K)
    ELSE pre.K

\* the check of the symmetric-exchange flag missing
LinKThrows_never == FALSE

\* build_linK throws when the exchange build is not declared symmetric
LinKThrows == do_K_ /\ k_type_ = LINK /\ ~lr_symmetric_

\* the statistics a build leaves: num_computed_shells_, and one more entry
\* of computed_shells_per_iter_[key] if (get_bench())
Recorded(stats, key, n) ==
    [num_computed_shells |-> n,
     computed_shells_per_iter |->
         IF bench_ THEN MapPush(stats.computed_shells_per_iter, key, n)
         ELSE stats.computed_shells_per_iter]

\* ... after the J build of compute_JK
StatisticsJ(pre) ==
    LET before == [num_computed_shells |-> num_computed_shells_,
                   computed_shells_per_iter |-> computed_shells_per_iter_]
    IN  IF do_J_ /\ j_type_ = DFDIRJ
        THEN Recorded(before, "Triplets", DFJ_tasks[DerefAll(pre.D_ref)].computed_shells)
        ELSE before

\* ... and after its K build, when that returns
StatisticsK(pre) ==
    IF do_K_ /\ k_type_ = LINK
    THEN Recorded(StatisticsJ(pre), "Quartets", linK_tasks[DerefAll(pre.D_ref)].computed_shells)
    ELSE IF do_K_ /\ k_type_ = COSX
    THEN Recorded(StatisticsJ(pre), "Quartets", COSK_tasks[DerefAll(pre.D_ref)].computed_shells)
    ELSE StatisticsJ(pre)

\* the wK check missing
WKThrows_never == FALSE

\* if (do_wK_) throw: the first statement of compute_JK
WKThrows == do_wK_

\* the flag left as the preprocessing set it
FinalInitialIteration_kept(initial) == initial

\* if (initial_iteration_) initial_iteration_ = false: its last statement
FinalInitialIteration(initial) == IF initial THEN FALSE ELSE initial

compute_JK ==
    /\ status = "ready"
    /\ last_call = "set_density"
    /\ incfock_count_ < MaxCount
    /\ IF WKThrows
       THEN /\ status' = "aborted"
            /\ last_call' = "compute_JK_throw"
            /\ UNCHANGED <<incfock_count_, do_incfock_iter_, initial_iteration_,
                           D_ref_, D_prev_, J_ao_, K_ao_, iteration_kind,
                           iters_since_full, computed_shells_per_iter_,
                           num_computed_shells_>>
       ELSE LET pre == Preprocessed
            IN  /\ do_incfock_iter_' = IF incfock_ THEN DoIncfockIter ELSE do_incfock_iter_
                /\ incfock_count_' = IF incfock_ THEN NextIncfockCount ELSE incfock_count_
                /\ D_ref_' = pre.D_ref
                /\ J_ao_' = BuiltJ(pre)
                /\ iteration_kind' = pre.kind
                /\ iters_since_full' = IF pre.kind = "full" THEN 0 ELSE iters_since_full + 1
                /\ IF LinKThrows
                   THEN /\ status' = "aborted"
                        /\ last_call' = "compute_JK_throw"
                        /\ K_ao_' = pre.K
                        /\ num_computed_shells_' = StatisticsJ(pre).num_computed_shells
                        /\ computed_shells_per_iter_' =
                               StatisticsJ(pre).computed_shells_per_iter
                        /\ initial_iteration_' = pre.initial_iteration
                        /\ UNCHANGED D_prev_
                   ELSE /\ status' = status
                        /\ last_call' = "compute_JK"
                        /\ K_ao_' = BuiltK(pre)
                        /\ num_computed_shells_' = StatisticsK(pre).num_computed_shells
                        /\ computed_shells_per_iter_' =
                               StatisticsK(pre).computed_shells_per_iter
                        /\ D_prev_' = IF incfock_ THEN incfock_postiter ELSE D_prev_
                        /\ initial_iteration_' =
                               FinalInitialIteration(pre.initial_iteration)
    /\ UNCHANGED <<build, options_, incfock_, j_type_, k_type_, do_J_, do_K_, do_wK_,
                   lr_symmetric_, D_ao_, Dnorm, bench_>>

----------------------------------------------------------------------------

Next ==
    \/ common_init
    \/ \E do_wK \in BOOLEAN : set_do_wK(do_wK)
    \/ \E D \in Densities, norm \in DnormValues : set_density(D, norm, TRUE)
    \/ compute_JK

Spec == Init /\ [][Next]_vars

\* The driver's other choices: exchange switched off or on, benchmarking,
\* and an exchange build that is not declared symmetric.
DriverTypes ==
    {DFDIRJ, <<"DFDIRJ", "+", "LINK">>, <<"DFDIRJ", "+", "COSX">>}

InitDriver ==
    /\ Init
    /\ options_.SCF_TYPE \in DriverTypes
    /\ options_.INCFOCK_FULL_FOCK_EVERY = 2

NextDriver ==
    \/ common_init
    \/ \E do_K \in BOOLEAN : set_do_K(do_K)
    \/ \E bench \in BOOLEAN : set_bench(bench)
    \/ \E D \in Densities, norm \in DnormValues, lr_symmetric \in BOOLEAN :
           set_density(D, norm, lr_symmetric)
    \/ compute_JK

SpecDriver == InitDriver /\ [][NextDriver]_vars

----------------------------------------------------------------------------
(* One call of build_linK, step by step.  build holds the locals of the   *)
(* call: the engine x, the input K, the number of threads and which       *)
(* thread owns which P of the ceiling loop, shell_ceilings, the position  *)
(* of every thread in the ceiling loop, the owner of the critical         *)
(* section, the sorted lists s, the index of the next atom-pair task, K   *)
(* in eighths and the threads that have run a task.  The object itself is *)
(* not touched before the end of the call.                                *)

object == <<status, options_, incfock_, incfock_count_, do_incfock_iter_,
            j_type_, k_type_, initial_iteration_, do_J_, do_K_, do_wK_,
            lr_symmetric_, D_ao_, D_ref_, D_prev_, J_ao_, K_ao_, Dnorm,
            computed_shells_per_iter_, bench_, num_computed_shells_, last_call,
            iteration_kind, iters_since_full>>

\* nthreads_ of the runs examined
MaxThreads == 2

\* (ml| magnitudes: symmetric, with (12|12)^2 <= (11|11) (22|22)
PairTable(a, b, c) ==
    [m \in BF, l \in BF |-> IF m # l THEN b ELSE IF m = 1 THEN a ELSE c]

PairTables == {PairTable(2, 1, 3), PairTable(1, 2, 4), PairTable(1, 0, 1)}

\* symmetric densities, one channel or two
LinKDensities ==
    {<<SymMatrix(a, b, 1)>> : a \in {0, 1}, b \in {0, 1, 3}}
    \cup {<<SymMatrix(1, 0, 0)>>, <<SymMatrix(1, 1, 0), SymMatrix(0, 0, 1)>>}

\* LINK_INTS_TOLERANCE at most every bound that is not zero, and above some
LinKCutoffs == {1, 3}

Engines ==
    [pv : PairTables, D : LinKDensities, cutoff_ : {cutoff_},
     linK_ints_cutoff_ : LinKCutoffs]

RECURSIVE CeilingIterations(_)
\* the (P, Q) of the ceiling loop that a thread owning the shells Ps runs,
\* in its order
CeilingIterations(Ps) ==
    IF Ps = {} THEN <<>>
    ELSE LET P == CHOOSE P \in Ps : \A P2 \in Ps : P <= P2
         IN  [Q \in 1..P |-> <<P, Q>>] \o CeilingIterations(Ps \ {P})

\* atom_pairs in the order the loops emplace them
atom_pair_list(x) ==
    CHOOSE l \in Orders(atom_pairs(x)) :
        \A i \in 1..(Len(l) - 1) :
            \/ l[i][1] < l[i + 1][1]
            \/ l[i][1] = l[i + 1][1] /\ l[i][2] < l[i + 1][2]

\* the object when compute_JK calls build_linK(D_ref_, K_ao_)
InsideBuildLinK(D, K) ==
    /\ status = "ready"
    /\ options_ = [INCFOCK |-> FALSE, INCFOCK_FULL_FOCK_EVERY |-> 1,
                   SCF_TYPE |-> <<"DFDIRJ", "+", "LINK">>]
    /\ incfock_ = FALSE /\ incfock_count_ = 0 /\ do_incfock_iter_ = FALSE
    /\ j_type_ = DFDIRJ /\ k_type_ = LINK
    /\ initial_iteration_ = TRUE
    /\ do_J_ = FALSE /\ do_K_ = TRUE /\ do_wK_ = FALSE /\ lr_symmetric_ = TRUE
    /\ D_ao_ = D /\ D_ref_ = SharePointers(D) /\ D_prev_ = <<>>
    /\ J_ao_ = Zeros(Len(D)) /\ K_ao_ = K
    /\ Dnorm = 0
    /\ computed_shells_per_iter_ = MapReset(MapReset(EmptyMap, "Quartets"), "Triplets")
    /\ bench_ = FALSE /\ num_computed_shells_ = 0
    /\ last_call = "set_density" /\ iteration_kind = "none" /\ iters_since_full = 0

\* the locals of build_linK at the ceiling loop
LinKCall(x, nthreads, owner) ==
    [phase |-> "ceilings", x |-> x, nthreads |-> nthreads,
     owner |-> owner, K |-> Zeros(Len(x.D)),
     shell_ceilings |-> [P \in Shells |-> 0],
     thr |-> [t \in 1..nthreads |->
                 [iters |-> CeilingIterations({P \in Shells : owner[P] = t}),
                  pc |-> "load", tmp |-> 0]],
     lock |-> 0, s |-> <<>>, next |-> 1,
     K8 |-> Zeros(Len(x.D)), ran |-> {}, computed_shells |-> 0]

\* the ways the parallel for of the ceiling loop hands the iterations P to
\* the threads of the team; the threads are interchangeable, so they are
\* numbered in the order in which they first get an iteration
Schedules(nthreads) ==
    {owner \in [1..nshell -> 1..nthreads] :
        \A P \in 1..nshell :
            owner[P] <= 1 + Max({0} \cup {owner[Q] : Q \in 1..(P - 1)})}

InitLinK ==
    /\ \E x \in Engines, nthreads \in 1..MaxThreads :
           \E owner \in Schedules(nthreads) :
               build = LinKCall(x, nthreads, owner)
    /\ InsideBuildLinK(build.x.D, build.K)

\* the iteration (P, Q) thread t is in, and its val
CeilingP(t) == Head(build.thr[t].iters)[1]

CeilingQ(t) == Head(build.thr[t].iters)[2]

CeilingVal(t) == ceiling_val(build.x, CeilingP(t), CeilingQ(t))

InCeilingLoop(t) ==
    /\ build.phase = "ceilings"
    /\ t \in 1..build.nthreads
    /\ build.thr[t].iters # <<>>

\* shell_ceilings[P] = std::max(shell_ceilings[P], val): the read ...
ceiling_load(t) ==
    /\ InCeilingLoop(t)
    /\ build.thr[t].pc = "load"
    /\ build' = [build EXCEPT !.thr[t].tmp = build.shell_ceilings[CeilingP(t)],
                              !.thr[t].pc = "store"]
    /\ UNCHANGED object

\* ... and the write, outside the critical section
ceiling_store(t) ==
    /\ InCeilingLoop(t)
    /\ build.thr[t].pc = "store"
    /\ build' = [build EXCEPT
                    !.shell_ceilings[CeilingP(t)] = Max({build.thr[t].tmp, CeilingVal(t)}),
                    !.thr[t].pc = "critical"]
    /\ UNCHANGED object

\* #pragma omp critical: entry, and the read of shell_ceilings[Q]
critical_load(t) ==
    /\ InCeilingLoop(t)
    /\ build.thr[t].pc = "critical"
    /\ build.lock = 0
    /\ build' = [build EXCEPT !.lock = t,
                              !.thr[t].tmp = build.shell_ceilings[CeilingQ(t)],
                              !.thr[t].pc = "critical_store"]
    /\ UNCHANGED object

\* the write of shell_ceilings[Q], and the exit
critical_store(t) ==
    /\ InCeilingLoop(t)
    /\ build.thr[t].pc = "critical_store"
    /\ build' = [build EXCEPT
                    !.shell_ceilings[CeilingQ(t)] = Max({build.thr[t].tmp, CeilingVal(t)}),
                    !.lock = 0,
                    !.thr[t].iters = Tail(build.thr[t].iters),
                    !.thr[t].pc = "load"]
    /\ UNCHANGED object

\* the end of the ceiling loop, and the third loop: significant_kets from
\* the ceilings as they are now; significant_bras in an order std::sort can
\* have left them in
preselect ==
    /\ build.phase = "ceilings"
    /\ \A t \in 1..build.nthreads : build.thr[t].iters = <<>>
    /\ \E s \in ScreeningTables(build.x, build.shell_ceilings) :
           build' = [build EXCEPT !.phase = "tasks", !.s = s, !.K8 = Zeros(Len(build.x.D))]
    /\ UNCHANGED object

\* one atom-pair task, run by the thread the dynamic schedule hands it to:
\* mini-lists, quartet loop, and the stripeout into K
task(t) ==
    /\ build.phase = "tasks"
    /\ t \in 1..build.nthreads
    /\ build.next <= Len(atom_pair_list(build.x))
    /\ LET ap == atom_pair_list(build.x)[build.next]
       IN  build' = [build EXCEPT
               !.next = build.next + 1,
               !.ran = build.ran \cup {t},
               !.computed_shells =
                   build.computed_shells + Cardinality(Quartets(build.x, build.s, ap)),
               !.K8 = [ind \in DOMAIN build.K8 |->
                          MatAdd(build.K8[ind], Stripeout(build.x, build.s, ap, ind))]]
    /\ UNCHANGED object

\* Kmat->hermitivitize() and the statistics
finish ==
    /\ build.phase = "tasks"
    /\ build.next > Len(atom_pair_list(build.x))
    /\ build' = [build EXCEPT !.phase = "done"]
    /\ K_ao_' = [ind \in DOMAIN build.K |->
                    LET K8 == Hermitivitized8(build.K[ind], build.K8[ind])
                    IN  [m \in BF, n \in BF |-> K8[m, n] \div 8]]
    /\ num_computed_shells_' = build.computed_shells
    /\ UNCHANGED <<status, options_, incfock_, incfock_count_, do_incfock_iter_,
                   j_type_, k_type_, initial_iteration_, do_J_, do_K_, do_wK_,
                   lr_symmetric_, D_ao_, D_ref_, D_prev_, J_ao_, Dnorm,
                   computed_shells_per_iter_, bench_, last_call,
                   iteration_kind, iters_since_full>>

NextLinK ==
    \/ \E t \in 1..MaxThreads : ceiling_load(t)
    \/ \E t \in 1..MaxThreads : ceiling_store(t)
    \/ \E t \in 1..MaxThreads : critical_load(t)
    \/ \E t \in 1..MaxThreads : critical_store(t)
    \/ preselect
    \/ \E t \in 1..MaxThreads : task(t)
    \/ finish

SpecLinK == InitLinK /\ [][NextLinK]_vars

----------------------------------------------------------------------------
(* The parallel loops of build_DirectDFJ, chunk by chunk: each thread adds *)
(* the triplets it runs to its own GT or JT, and the sequential code       *)
(* between and after the loops sums the per-thread accumulators.           *)

\* every thread given rank 0
omp_get_thread_num_zero(t) == 1

\* rank = omp_get_thread_num(): the accumulator a thread writes
omp_get_thread_num(t) == t

\* shell_pairs() as a list: (M, N) with N <= M, by M and then N
shell_pair_list ==
    [i \in 1..Cardinality(shell_pairs) |->
        CHOOSE MN \in shell_pairs : (MN[1] * (MN[1] - 1)) \div 2 + MN[2] = i]

nshellpair == Len(shell_pair_list)

nshelltriplet == nshellpair * Cardinality(AuxShells)

\* MN = MNP % nshellpair; P = MNP / nshellpair, for MNP + 1 in 1..nshelltriplet
TripletOrder ==
    [MNP \in 1..nshelltriplet |->
        [M |-> shell_pair_list[((MNP - 1) % nshellpair) + 1][1],
         N |-> shell_pair_list[((MNP - 1) % nshellpair) + 1][2],
         P |-> ((MNP - 1) \div nshellpair) + 1]]

\* schedule(guided): the next chunk is the remaining iterations divided by
\* the number of threads, at least one
ChunkSize(remaining, nthreads) == Max({1, (remaining + nthreads - 1) \div nthreads})

\* the second triangle left out
GTerm_one_triangle(D, jki, M, N, P) ==
    [p \in AUX |->
        IF p \in AuxFunctionsOf(P)
        THEN SumFn([mn \in FunctionsOf(M) \X FunctionsOf(N) |->
                 Eri3(p, mn[1], mn[2]) * D[jki][mn[1], mn[2]]])
        ELSE 0]

\* GTp[p] += buffer[index] * Dp[m][n], and * Dp[n][m] if (N != M)
GTerm(D, jki, M, N, P) ==
    [p \in AUX |->
        IF p \in AuxFunctionsOf(P)
        THEN SumFn([mn \in FunctionsOf(M) \X FunctionsOf(N) |->
                 Eri3(p, mn[1], mn[2]) * D[jki][mn[1], mn[2]]
                 + (IF N # M THEN Eri3(p, mn[1], mn[2]) * D[jki][mn[2], mn[1]] ELSE 0)])
        ELSE 0]

\* JTp[m][n] += buffer[index] * Hp[p], and JTp[n][m] if (N != M)
JTerm(H, jki, M, N, P) ==
    [a \in BF, b \in BF |->
        SumFn([mn \in FunctionsOf(M) \X FunctionsOf(N) |->
            LET v == SumFn([p \in AuxFunctionsOf(P) |-> Eri3(p, mn[1], mn[2]) * H[jki][p]])
            IN  (IF <<a, b>> = mn THEN v ELSE 0)
                + (IF N # M /\ <<a, b>> = <<mn[2], mn[1]>> THEN v ELSE 0)])]

\* the iterations lo..hi of the first loop that pass the test
ForwardEvaluated(D, th, lo, hi) ==
    {i \in lo..hi :
        ~ForwardSkips(Dshell(D), th, TripletOrder[i].M, TripletOrder[i].N, TripletOrder[i].P)}

\* the iterations lo..hi of the second loop that pass the test
BackEvaluated(H_shell_maxp, th, lo, hi) ==
    {i \in lo..hi :
        ~BackSkips(H_shell_maxp, th, TripletOrder[i].M, TripletOrder[i].N, TripletOrder[i].P)}

\* the sum over the threads of a per-thread accumulator of vectors
SumGT(GT, jki) == [p \in AUX |-> SumFn([t \in DOMAIN GT |-> GT[t][jki][p]])]

\* ... of matrices
SumKT(KT, jki) == [m \in BF, n \in BF |-> SumFn([t \in DOMAIN KT |-> KT[t][jki][m, n]])]

\* the threads that wrote each per-thread accumulator, and the number of
\* times each was added to the builder's output
NoWriters(nthreads) == [i \in 1..nthreads |-> {}]

NotMerged(nthreads) == [i \in 1..nthreads |-> 0]

Written(writers, rank, t) == [writers EXCEPT ![rank] = @ \cup {t}]

MergedOnce(merged) == [i \in DOMAIN merged |-> merged[i] + 1]

\* the densities, tolerances and accumulators of the J builds examined
DFJDensities ==
    {<<SymMatrix(2, 0, -1)>>, <<SymMatrix(0, 2, 1)>>, <<SymMatrix(-1, -1, 1)>>,
     <<[m \in BF, n \in BF |-> IF m < n THEN 2 ELSE IF m > n THEN 0 ELSE 1]>>,
     <<SymMatrix(1, 1, 0), SymMatrix(0, 0, 1)>>}

\* INTS_TOLERANCE squared, in units of the bounds; 0 disables the screening
DFJTolerances == {0, 1, 4}

DFJAccumulators(njk) == {Zeros(njk), [jki \in 1..njk |-> SymMatrix(1, 2, 0)]}

\* the state of the object inside compute_JK when build_DirectDFJ is called
InsideBuildDFJ(D, J) ==
    /\ status = "ready"
    /\ options_ = [INCFOCK |-> FALSE, INCFOCK_FULL_FOCK_EVERY |-> 1, SCF_TYPE |-> DFDIRJ]
    /\ incfock_ = FALSE /\ incfock_count_ = 0 /\ do_incfock_iter_ = FALSE
    /\ j_type_ = DFDIRJ /\ k_type_ = NONE
    /\ initial_iteration_ = TRUE
    /\ do_J_ = TRUE /\ do_K_ = FALSE /\ do_wK_ = FALSE /\ lr_symmetric_ = TRUE
    /\ D_ao_ = D /\ D_ref_ = SharePointers(D) /\ D_prev_ = <<>>
    /\ J_ao_ = J /\ K_ao_ = Zeros(Len(D))
    /\ Dnorm = 0
    /\ computed_shells_per_iter_ = MapReset(MapReset(EmptyMap, "Quartets"), "Triplets")
    /\ bench_ = TRUE /\ num_computed_shells_ = 0
    /\ last_call = "set_density" /\ iteration_kind = "none" /\ iters_since_full = 0

\* the locals of build_DirectDFJ at the first triplet loop
DFJCall(D, J, th, nthreads) ==
    [kind |-> "DFJ", phase |-> "forward", D |-> D, J |-> J, thresh2 |-> th,
     nthreads |-> nthreads, next |-> 1, ran |-> {},
     GT |-> [t \in 1..nthreads |-> [jki \in DOMAIN D |-> [p \in AUX |-> 0]]],
     H |-> [jki \in DOMAIN D |-> [p \in AUX |-> 0]],
     H_shell_max |-> [P \in AuxShells |-> 0],
     JT |-> [t \in 1..nthreads |-> [jki \in DOMAIN D |-> ZeroMatrix]],
     computed_triplets1 |-> 0, computed_triplets2 |-> 0,
     writers |-> [GT |-> NoWriters(nthreads), JT |-> NoWriters(nthreads)],
     merged |-> [GT |-> NotMerged(nthreads), JT |-> NotMerged(nthreads)]]

InitDFJ ==
    /\ \E D \in DFJDensities, th \in DFJTolerances, nthreads \in 1..MaxThreads :
           \E J \in DFJAccumulators(Len(D)) :
               build = DFJCall(D, J, th, nthreads)
    /\ InsideBuildDFJ(build.D, build.J)

\* a thread that may take the next chunk: the threads are interchangeable,
\* so the one that has not run yet is the lowest
NextThreads(b) == {t \in 1..b.nthreads : t <= 1 + Max({0} \cup b.ran)}

\* one chunk of the first triplet loop, run by thread t
forward(t) ==
    /\ build.kind = "DFJ" /\ build.phase = "forward"
    /\ t \in NextThreads(build)
    /\ build.next <= nshelltriplet
    /\ LET hi == build.next + ChunkSize(nshelltriplet - build.next + 1, build.nthreads) - 1
           rank == omp_get_thread_num(t)
           done == ForwardEvaluated(build.D, build.thresh2, build.next, hi)
       IN  build' = [build EXCEPT
               !.next = hi + 1,
               !.ran = @ \cup {t},
               !.computed_triplets1 = @ + Cardinality(done),
               !.GT[rank] = [jki \in DOMAIN build.D |-> [p \in AUX |->
                   @[jki][p] + SumFn([i \in done |->
                       GTerm(build.D, jki, TripletOrder[i].M, TripletOrder[i].N,
                             TripletOrder[i].P)[p]])]],
               !.writers.GT = IF done = {} THEN @ ELSE Written(@, rank, t)]
    /\ UNCHANGED object

\* H = sum of GT over the threads, the metric solve and the shell maxima of H
solve ==
    /\ build.kind = "DFJ" /\ build.phase = "forward"
    /\ build.next > nshelltriplet
    /\ LET H == [jki \in DOMAIN build.D |-> HVector(SumGT(build.GT, jki))]
       IN  build' = [build EXCEPT
               !.phase = "back", !.next = 1, !.ran = {},
               !.H = H,
               !.H_shell_max = H_shell_max(H),
               !.merged.GT = MergedOnce(@)]
    /\ UNCHANGED object

\* one chunk of the second triplet loop, run by thread t
back(t) ==
    /\ build.kind = "DFJ" /\ build.phase = "back"
    /\ t \in NextThreads(build)
    /\ build.next <= nshelltriplet
    /\ LET hi == build.next + ChunkSize(nshelltriplet - build.next + 1, build.nthreads) - 1
           rank == omp_get_thread_num(t)
           done == BackEvaluated(build.H_shell_max, build.thresh2, build.next, hi)
       IN  build' = [build EXCEPT
               !.next = hi + 1,
               !.ran = @ \cup {t},
               !.computed_triplets2 = @ + Cardinality(done),
               !.JT[rank] = [jki \in DOMAIN build.D |-> [m \in BF, n \in BF |->
                   @[jki][m, n] + SumFn([i \in done |->
                       JTerm(build.H, jki, TripletOrder[i].M, TripletOrder[i].N,
                             TripletOrder[i].P)[m, n]])]],
               !.writers.JT = IF done = {} THEN @ ELSE Written(@, rank, t)]
    /\ UNCHANGED object

\* the statistics, J += sum of JT over the threads, hermitivitize
reduceJ ==
    /\ build.kind = "DFJ" /\ build.phase = "back"
    /\ build.next > nshelltriplet
    /\ build' = [build EXCEPT !.phase = "done", !.merged.JT = MergedOnce(@)]
    /\ J_ao_' = [jki \in DOMAIN build.J |->
                    hermitivitize(MatAdd(build.J[jki], SumKT(build.JT, jki)))]
    /\ num_computed_shells_' = build.computed_triplets1 + build.computed_triplets2
    /\ computed_shells_per_iter_' =
           IF bench_
           THEN MapPush(computed_shells_per_iter_, "Triplets",
                        build.computed_triplets1 + build.computed_triplets2)
           ELSE computed_shells_per_iter_
    /\ UNCHANGED <<status, options_, incfock_, incfock_count_, do_incfock_iter_,
                   j_type_, k_type_, initial_iteration_, do_J_, do_K_, do_wK_,
                   lr_symmetric_, D_ao_, D_ref_, D_prev_, K_ao_, Dnorm,
                   bench_, last_call, iteration_kind, iters_since_full>>

NextDFJ ==
    \/ \E t \in 1..MaxThreads : forward(t)
    \/ solve
    \/ \E t \in 1..MaxThreads : back(t)
    \/ reduceJ

SpecDFJ == InitDFJ /\ [][NextDFJ]_vars

----------------------------------------------------------------------------
(* The grid loop of build_COSK, block by block: each thread adds the       *)
(* blocks it runs to its own KT; the reduction follows the loop.           *)

\* int_shells_total += npoints_block, for every shell pair that reaches the
\* screening tests
BlockCandidates(D, bi) == Cardinality(CandidatePairs(D, bi)) * Cardinality(PointsOf(bi))

\* the counter incremented before the screening tests
BlockComputed_unscreened(D, bi) == BlockCandidates(D, bi)

\* int_shells_computed++, after compute_shell(NU, TAU)
BlockComputed(D, bi) == Cardinality(EvaluatedShells(D, bi))

\* the densities and accumulators of the COSX builds examined
COSKDensities ==
    {<<SymMatrix(1, 0, 1)>>, <<SymMatrix(1, -2, 1)>>, <<SymMatrix(1, 0, 0)>>,
     <<SymMatrix(2, 1, 0)>>, <<SymMatrix(1, 1, 0), SymMatrix(0, 0, 1)>>}

COSKAccumulators(njk) == {Zeros(njk), [jki \in 1..njk |-> SymMatrix(1, 2, 0)]}

\* the state of the object inside compute_JK when build_COSK is called
InsideBuildCOSK(D, K) ==
    /\ status = "ready"
    /\ options_ = [INCFOCK |-> FALSE, INCFOCK_FULL_FOCK_EVERY |-> 1,
                   SCF_TYPE |-> <<"DFDIRJ", "+", "COSX">>]
    /\ incfock_ = FALSE /\ incfock_count_ = 0 /\ do_incfock_iter_ = FALSE
    /\ j_type_ = DFDIRJ /\ k_type_ = COSX
    /\ initial_iteration_ = TRUE
    /\ do_J_ = FALSE /\ do_K_ = TRUE /\ do_wK_ = FALSE
    /\ lr_symmetric_ \in BOOLEAN
    /\ D_ao_ = D /\ D_ref_ = SharePointers(D) /\ D_prev_ = <<>>
    /\ J_ao_ = Zeros(Len(D)) /\ K_ao_ = K
    /\ Dnorm = 0
    /\ computed_shells_per_iter_ = MapReset(MapReset(EmptyMap, "Quartets"), "Triplets")
    /\ bench_ \in BOOLEAN /\ num_computed_shells_ = 0
    /\ last_call = "set_density" /\ iteration_kind = "none" /\ iters_since_full = 0

\* the locals of build_COSK at the grid loop
COSKCall(D, K, nthreads) ==
    [kind |-> "COSK", phase |-> "grid", D |-> D, K |-> K,
     nthreads |-> nthreads, next |-> 1, ran |-> {},
     KT |-> [t \in 1..nthreads |-> [jki \in DOMAIN D |-> ZeroMatrix]],
     int_shells_total |-> 0, int_shells_computed |-> 0,
     writers |-> [KT |-> NoWriters(nthreads)],
     merged |-> [KT |-> NotMerged(nthreads)]]

InitCOSK ==
    /\ \E D \in COSKDensities, nthreads \in 1..MaxThreads :
           \E K \in COSKAccumulators(Len(D)) :
               build = COSKCall(D, K, nthreads)
    /\ InsideBuildCOSK(build.D, build.K)

\* one block of grid points, run by thread t
block(t) ==
    /\ build.kind = "COSK" /\ build.phase = "grid"
    /\ t \in NextThreads(build)
    /\ build.next \in Blocks
    /\ LET bi == build.next
           rank == omp_get_thread_num(t)
       IN  build' = [build EXCEPT
               !.next = bi + 1,
               !.ran = @ \cup {t},
               !.int_shells_total = @ + BlockCandidates(build.D, bi),
               !.int_shells_computed = @ + BlockComputed(build.D, bi),
               !.KT[rank] = [jki \in DOMAIN build.D |->
                                MatAdd(@[jki], KT_block(build.D, jki, bi))],
               !.writers.KT = Written(@, rank, t)]
    /\ UNCHANGED object

\* K += sum of KT over the threads, hermitivitize if (lr_symmetric_), and
\* the statistics
reduceK ==
    /\ build.kind = "COSK" /\ build.phase = "grid"
    /\ build.next \notin Blocks
    /\ build' = [build EXCEPT !.phase = "done", !.merged.KT = MergedOnce(@)]
    /\ K_ao_' = [jki \in DOMAIN build.K |->
                    LET sum == MatAdd(build.K[jki], SumKT(build.KT, jki))
                    IN  IF lr_symmetric_ THEN hermitivitize(sum) ELSE sum]
    /\ num_computed_shells_' = build.int_shells_computed
    /\ computed_shells_per_iter_' =
           IF bench_
           THEN MapPush(computed_shells_per_iter_, "Quartets", build.int_shells_computed)
           ELSE computed_shells_per_iter_
    /\ UNCHANGED <<status, options_, incfock_, incfock_count_, do_incfock_iter_,
                   j_type_, k_type_, initial_iteration_, do_J_, do_K_, do_wK_,
                   lr_symmetric_, D_ao_, D_ref_, D_prev_, J_ao_, Dnorm,
                   bench_, last_call, iteration_kind, iters_since_full>>

NextCOSK ==
    \/ \E t \in 1..MaxThreads : block(t)
    \/ reduceK

SpecCOSK == InitCOSK /\ [][NextCOSK]_vars

----------------------------------------------------------------------------
(* The task loop of build_linK with the per-thread buffers: a thread takes *)
(* an atom-pair task, runs its quartet loop in its own KT and then adds    *)
(* the buffer elements of the stripeout lists to the shared K, one atomic  *)
(* add at a time, while the other threads do the same.                     *)

\* the basis functions of an atom, their number, and the largest number
FunctionsOfAtom(atom) == UNION {FunctionsOf(P) : P \in ShellsOfAtom(atom)}

nbasis(atom) == Cardinality(FunctionsOfAtom(atom))

max_functions_per_atom == Max({nbasis(atom) : atom \in Atoms})

\* p + shell_P_offset: the row of a function in the buffers, counted from 1
LocalRow(atom, m) == Cardinality({k \in FunctionsOfAtom(atom) : k <= m})

\* KT[thread][ind] as allocated: 4 * max_functions_per_atom rows of zeros
ZeroKT == [b \in 1..4, row \in 1..max_functions_per_atom, col \in BF |-> 0]

\* the buffers left as the previous task of the thread left them
memset_none(KTp, nPbasis, nQbasis) == KTp

\* if (!touched) memset: the first nPbasis rows of K1p and K2p and the
\* first nQbasis rows of K3p and K4p
memset(KTp, nPbasis, nQbasis) ==
    [b \in 1..4, row \in 1..max_functions_per_atom, col \in BF |->
        IF row <= (IF b <= 2 THEN nPbasis ELSE nQbasis) THEN 0 ELSE KTp[b, row, col]]

\* KT[thread][ind] after the quartet loop and the scale by 2 of a task that
\* evaluated a quartet; an untouched task leaves the buffers alone
QuartetLoop(KTp, local, ap, hit) ==
    IF ~hit THEN KTp
    ELSE LET zeroed == memset(KTp, nbasis(ap[1]), nbasis(ap[2]))
         IN  [b \in 1..4, row \in 1..max_functions_per_atom, col \in BF |->
                 LET atom == IF b <= 2 THEN ap[1] ELSE ap[2]
                 IN  2 * (zeroed[b, row, col]
                          + SumFn([m \in {m \in FunctionsOfAtom(atom) :
                                            LocalRow(atom, m) = row} |->
                                local[b, m, col]]))]

\* the atomic adds of the stripeout of a task: K[ind][m][n] += buffer b at
\* the row of m and column n
StripeoutAdds(x, s, ap) ==
    LET rowsP == PStripeoutSet(x, s, ap)
        rowsQ == QStripeoutSet(x, s, ap)
    IN  {a \in [ind : DOMAIN x.D, b : 1..4, m : BF, n : BF] :
            IF a.b <= 2 THEN <<a.m, a.n>> \in rowsP ELSE <<a.m, a.n>> \in rowsQ}

\* their place in the loops: ind, P rows before Q rows, row, column, and
\* the two buffers of an element one after the other
StripeoutKey(a) ==
    ((((a.ind * 2 + (IF a.b <= 2 THEN 0 ELSE 1)) * (nshell + 1) + a.m)
        * (nshell + 1) + a.n) * 5) + a.b

RECURSIVE InLoopOrder(_)
InLoopOrder(adds) ==
    IF adds = {} THEN <<>>
    ELSE LET a == CHOOSE a \in adds : \A a2 \in adds : StripeoutKey(a) <= StripeoutKey(a2)
         IN  <<a>> \o InLoopOrder(adds \ {a})

\* the stripeout of a task as the sequence of its atomic adds
StripeoutList(x, s, ap) == InLoopOrder(StripeoutAdds(x, s, ap))

\* the element overwritten with the buffer value
AtomicAdd_store(K8, ind, m, n, v) ==
    [K8 EXCEPT ![ind] = [@ EXCEPT ![m, n] = v]]

\* #pragma omp atomic: Kp[m][n] += v
AtomicAdd(K8, ind, m, n, v) ==
    [K8 EXCEPT ![ind] = [@ EXCEPT ![m, n] = @ + v]]

\* the engines of the task loops examined
TaskEngines ==
    [pv : {PairTable(2, 1, 3), PairTable(1, 2, 4)},
     D : {<<SymMatrix(1, 3, 1)>>, <<SymMatrix(1, 0, 1)>>, <<SymMatrix(1, 0, 0)>>,
          <<SymMatrix(1, 1, 0), SymMatrix(0, 0, 1)>>},
     cutoff_ : {cutoff_}, linK_ints_cutoff_ : LinKCutoffs]

\* what a task computes in its thread: the quartets, the buffers of the
\* quartet loop and the stripeout lists
LinKTask(x, s, ap) ==
    [touched |-> touched(x, s, ap),
     computed |-> Cardinality(Quartets(x, s, ap)),
     local |-> [ind \in DOMAIN x.D |-> LocalK(x, s, ap, ind)],
     list |-> StripeoutList(x, s, ap)]

\* the tasks of the loop, in the order of atom_pairs
TaskList(x, s) ==
    [ipair \in 1..Len(atom_pair_list(x)) |->
        [ap |-> atom_pair_list(x)[ipair]] @@ LinKTask(x, s, atom_pair_list(x)[ipair])]

\* the locals of build_linK at the task loop
TaskCall(x, s, nthreads) ==
    [kind |-> "linK", phase |-> "tasks", x |-> x, s |-> s, nthreads |-> nthreads,
     tasks |-> TaskList(x, s),
     K |-> Zeros(Len(x.D)), K8 |-> Zeros(Len(x.D)), next |-> 1, ran |-> {},
     thr |-> [t \in 1..nthreads |->
                 [pc |-> "idle", ipair |-> 0, todo |-> <<>>,
                  KT |-> [ind \in DOMAIN x.D |-> ZeroKT]]],
     computed_shells |-> 0,
     writers |-> [KT |-> NoWriters(nthreads)],
     merged |-> [KT |-> NotMerged(nthreads)]]

InitTasks ==
    /\ \E x \in TaskEngines, nthreads \in 1..MaxThreads :
           \E s \in ScreeningTables(x, shell_ceilings_of(x)) :
               build = TaskCall(x, s, nthreads)
    /\ InsideBuildLinK(build.x.D, build.K)

\* thread t takes the next task: mini-lists, quartet loop in KT[thread],
\* if (!touched) continue, scale by 2
take(t) ==
    /\ build.kind = "linK" /\ build.phase = "tasks"
    /\ t \in NextThreads(build)
    /\ build.thr[t].pc = "idle"
    /\ build.next <= Len(build.tasks)
    /\ LET job == build.tasks[build.next]
           ap == job.ap
           rank == omp_get_thread_num(t)
           hit == job.touched
       IN  build' = [build EXCEPT
               !.next = @ + 1,
               !.ran = @ \cup {t},
               !.computed_shells = @ + job.computed,
               !.thr[t].pc = IF hit /\ job.list # <<>> THEN "stripeout" ELSE "idle",
               !.thr[t].ipair = build.next,
               !.thr[t].todo = IF hit THEN job.list ELSE <<>>,
               !.thr[rank].KT = [ind \in DOMAIN build.x.D |->
                                    QuartetLoop(@[ind], job.local[ind], ap, hit)],
               !.writers.KT = IF hit THEN Written(@, rank, t) ELSE @,
               !.merged.KT = IF hit THEN [@ EXCEPT ![rank] = @ + 1] ELSE @]
    /\ UNCHANGED object

\* the next atomic add of the stripeout of thread t
commit(t) ==
    /\ build.kind = "linK" /\ build.phase = "tasks"
    /\ t \in 1..build.nthreads
    /\ build.thr[t].pc = "stripeout"
    /\ LET me == build.thr[t]
           a == Head(me.todo)
           ap == build.tasks[me.ipair].ap
           atom == IF a.b <= 2 THEN ap[1] ELSE ap[2]
           v == build.thr[omp_get_thread_num(t)].KT[a.ind][a.b, LocalRow(atom, a.m), a.n]
       IN  build' = [build EXCEPT
               !.K8 = AtomicAdd(@, a.ind, a.m, a.n, v),
               !.thr[t].todo = Tail(@),
               !.thr[t].pc = IF Len(me.todo) = 1 THEN "idle" ELSE "stripeout"]
    /\ UNCHANGED object

\* the end of the parallel loop: hermitivitize and the statistics
finishK ==
    /\ build.kind = "linK" /\ build.phase = "tasks"
    /\ build.next > Len(build.tasks)
    /\ \A t \in 1..build.nthreads : build.thr[t].pc = "idle"
    /\ build' = [build EXCEPT !.phase = "done"]
    /\ K_ao_' = [ind \in DOMAIN build.K |->
                    LET K8 == Hermitivitized8(build.K[ind], build.K8[ind])
                    IN  [m \in BF, n \in BF |-> K8[m, n] \div 8]]
    /\ num_computed_shells_' = build.computed_shells
    /\ computed_shells_per_iter_' =
           IF bench_
           THEN MapPush(computed_shells_per_iter_, "Quartets", build.computed_shells)
           ELSE computed_shells_per_iter_
    /\ UNCHANGED <<status, options_, incfock_, incfock_count_, do_incfock_iter_,
                   j_type_, k_type_, initial_iteration_, do_J_, do_K_, do_wK_,
                   lr_symmetric_, D_ao_, D_ref_, D_prev_, J_ao_, Dnorm,
                   bench_, last_call, iteration_kind, iters_since_full>>

NextTasks ==
    \/ \E t \in 1..MaxThreads : take(t)
    \/ \E t \in 1..MaxThreads : commit(t)
    \/ finishK

SpecTasks == InitTasks /\ [][NextTasks]_vars

----------------------------------------------------------------------------
(* The three builders side by side: every parallel loop with a per-thread  *)
(* accumulator.                                                            *)

InitParallel == InitDFJ \/ InitTasks \/ InitCOSK

NextParallel == NextDFJ \/ NextTasks \/ NextCOSK

SpecParallel == InitParallel /\ [][NextParallel]_vars

----------------------------------------------------------------------------
(* Atom blocking of build_linK (845-869), on a basis of its own: the       *)
(* centers of the shells are the input, one function of the shell index    *)
(* gives the shell sizes. Shells and endpoints count from 0 as in the      *)
(* code; centers[P + 1] is primary_->shell(P).ncenter().                   *)

MaxShells == 4
MaxCenter == 2

\* the bases whose shells are listed in center order
CenterLists ==
    UNION {{c \in [1..n -> 0..MaxCenter] :
               \A i \in 1..(n - 1) : c[i] <= c[i + 1]} : n \in 1..MaxShells}

\* primary_->shell(P).nfunction(): s and p shells in turn
nfunction(P) == IF P % 2 = 0 THEN 1 ELSE 3

\* primary_->shell_to_basis_function(P)
shell_to_basis_function(P) == SumFn([Q \in 1..P |-> nfunction(Q - 1)])

\* if (primary_->shell(P).ncenter() > atomic_ind)
StartsAtom(center, atomic_ind) == center > atomic_ind

\* the size of the rows of one block, summed over its shells
BlockSize(lo, hi) ==
    SumFn([i \in 1..(hi - lo) |-> nfunction(lo + i - 1)])

\* the locals of build_linK before the loop over the shells
AtomCall(centers) ==
    [kind |-> "atoms", phase |-> "shells", centers |-> centers,
     nshell |-> Len(centers), nbf |-> shell_to_basis_function(Len(centers)),
     P |-> 0, atomic_ind |-> -1,
     shell_endpoints_for_atom |-> <<>>, basis_endpoints_for_shell |-> <<>>,
     natom |-> 0, max_functions_per_atom |-> 0]

InitAtoms ==
    /\ \E centers \in CenterLists : build = AtomCall(centers)
    /\ InsideBuildLinK(<<SymMatrix(1, 0, 1)>>, Zeros(1))

\* one pass of the loop over P that starts an atom
start_atom ==
    /\ build.kind = "atoms" /\ build.phase = "shells"
    /\ build.P < build.nshell
    /\ StartsAtom(build.centers[build.P + 1], build.atomic_ind)
    /\ build' = [build EXCEPT
           !.shell_endpoints_for_atom = Append(@, build.P),
           !.atomic_ind = @ + 1,
           !.basis_endpoints_for_shell =
               Append(@, shell_to_basis_function(build.P)),
           !.P = @ + 1]
    /\ UNCHANGED object

\* one pass of the loop over P that stays in the atom
same_atom ==
    /\ build.kind = "atoms" /\ build.phase = "shells"
    /\ build.P < build.nshell
    /\ ~StartsAtom(build.centers[build.P + 1], build.atomic_ind)
    /\ build' = [build EXCEPT
           !.basis_endpoints_for_shell =
               Append(@, shell_to_basis_function(build.P)),
           !.P = @ + 1]
    /\ UNCHANGED object

\* the closing endpoints, natom and max_functions_per_atom
close_blocks ==
    /\ build.kind = "atoms" /\ build.phase = "shells"
    /\ build.P = build.nshell
    /\ LET ends == Append(build.shell_endpoints_for_atom, build.nshell)
           natom == Len(ends) - 1
       IN  build' = [build EXCEPT
               !.phase = "blocked",
               !.shell_endpoints_for_atom = ends,
               !.basis_endpoints_for_shell = Append(@, build.nbf),
               !.natom = natom,
               !.max_functions_per_atom =
                   Max({0} \cup {BlockSize(ends[a], ends[a + 1]) :
                                    a \in 1..natom})]
    /\ UNCHANGED object

NextAtoms == start_atom \/ same_atom \/ close_blocks

SpecAtoms == InitAtoms /\ [][NextAtoms]_vars

----------------------------------------------------------------------------
(* Vocabulary of the claims *)

\* a compute_JK call that returns
ComputeReturns == last_call = "set_density" /\ last_call' = "compute_JK"

\* what one build on density D adds to zeroed accumulators
ContributionJ(D) == build_DirectDFJ(D, Zeros(Len(D)))

ContributionK(D) ==
    IF do_K_ /\ k_type_ = LINK THEN build_linK(D, Zeros(Len(D)))
    ELSE IF do_K_ /\ k_type_ = COSX THEN build_COSK(D, Zeros(Len(D)))
    ELSE Zeros(Len(D))

SeqAdd(A, B) == [i \in DOMAIN A |-> MatAdd(A[i], B[i])]

\* current density minus cached previous density, channel by channel
DensityDelta == [jki \in 1..Len(D_ao_) |-> MatSubtract(D_ao_[jki], Deref(D_prev_[jki]))]

\* D_ref_ after the step holds objects of its own with the values of D
RefHoldsCopies(D) ==
    /\ Len(D_ref_') = Len(D)
    /\ \A jki \in 1..Len(D) : ~D_ref_'[jki].shared /\ D_ref_'[jki].val = D[jki]

NonZero(M) == \E i \in DOMAIN M : M[i] # ZeroMatrix

----------------------------------------------------------------------------
(* C1: on an incremental iteration the builders receive, for every        *)
(* channel, D_ref = current density minus cached previous density, and    *)
(* the J/K the core leaves is ONLY the contribution built from D_ref (the *)
(* core does not add it onto the J/K persisted from the prior iteration). *)
(* This is the claim as made; the code refutes it.                        *)
C1_DeltaOnlyOutput ==
    [][ComputeReturns /\ iteration_kind' = "incremental"
        => /\ RefHoldsCopies(DensityDelta)
           /\ J_ao_' = ContributionJ(DensityDelta)
           /\ K_ao_' = ContributionK(DensityDelta)]_vars

(* C1 as amended: on an incremental iteration the builders receive        *)
(* D_ref = current minus cached previous density for every channel, and   *)
(* the core itself adds the contribution built from D_ref onto the J/K    *)
(* left in its accumulators by the prior iteration.                       *)
C1_DeltaAccumulated ==
    [][ComputeReturns /\ iteration_kind' = "incremental"
        => /\ RefHoldsCopies(DensityDelta)
           /\ J_ao_' = SeqAdd(J_ao_, ContributionJ(DensityDelta))
           /\ K_ao_' = SeqAdd(K_ao_, ContributionK(DensityDelta))]_vars

\* an incremental iteration has run on a changed density, with J and K built
C1_Witness ==
    /\ last_call = "compute_JK"
    /\ iteration_kind = "incremental"
    /\ k_type_ = LINK
    /\ Len(D_ao_) = 2
    /\ NonZero(DerefAll(D_ref_))
    /\ J_ao_ # ContributionJ(DerefAll(D_ref_))

(* C2: whenever compute_JK runs an incremental iteration, at that call it *)
(* is not the first iteration, the previous-density cache exists with the *)
(* channel count of the current density, the density-change norm is at    *)
(* least INCFOCK_CONVERGENCE, and the iterations since the last full      *)
(* build, this one included, are fewer than INCFOCK_FULL_FOCK_EVERY.      *)
C2_IncrementalPreconditions ==
    [][ComputeReturns /\ iteration_kind' = "incremental"
        => /\ ~initial_iteration_
           /\ Len(D_prev_) > 0
           /\ Len(D_prev_) = Len(D_ao_)
           /\ Dnorm >= INCFOCK_CONVERGENCE
           /\ iters_since_full < options_.INCFOCK_FULL_FOCK_EVERY
           /\ iters_since_full' < options_.INCFOCK_FULL_FOCK_EVERY]_vars

\* the longest run of incremental iterations the cadence 3 allows
C2_Witness ==
    /\ last_call = "compute_JK"
    /\ iteration_kind = "incremental"
    /\ options_.INCFOCK_FULL_FOCK_EVERY = 3
    /\ iters_since_full = 2

(* C3: with INCFOCK enabled, after every completed compute_JK (a full     *)
(* build followed by any number of incremental builds and resets) the     *)
(* accumulated J and K equal what one full build on the current density   *)
(* produces.                                                              *)
C3_IncrementalCorrectness ==
    (last_call = "compute_JK" /\ incfock_)
        => /\ J_ao_ = ContributionJ(D_ao_)
           /\ K_ao_ = ContributionK(D_ao_)

\* two incremental builds in a row on densities that changed, K by COSX
C3_Witness ==
    /\ last_call = "compute_JK"
    /\ incfock_
    /\ k_type_ = COSX
    /\ iters_since_full = 2
    /\ NonZero(DerefAll(D_ref_))
    /\ K_ao_ = ContributionK(D_ao_)
    /\ NonZero(K_ao_)

(* C4: after every compute_JK iteration handled by the incremental-Fock   *)
(* controller, full or incremental, the previous-density cache holds one  *)
(* matrix per current channel, each an object of its own equal to the     *)
(* current density of that channel.                                       *)
C4_CacheIsCopyOfCurrent ==
    (last_call = "compute_JK" /\ incfock_)
        => /\ Len(D_prev_) = Len(D_ao_)
           /\ \A i \in 1..Len(D_ao_) : ~D_prev_[i].shared /\ D_prev_[i].val = D_ao_[i]

\* the cache after an incremental iteration on two channels
C4_Witness ==
    /\ last_call = "compute_JK"
    /\ incfock_
    /\ iteration_kind = "incremental"
    /\ Len(D_prev_) = 2
    /\ D_prev_[1].val # D_prev_[2].val

(* C5: the previous-density cache is overwritten only after an iteration  *)
(* that completes a full build; an incremental iteration leaves the cache *)
(* unchanged.  This is the claim as made; the code refutes it.            *)
C5_CacheKeptOnIncremental ==
    [][/\ DerefAll(D_prev_)' # DerefAll(D_prev_) => ComputeReturns /\ iteration_kind' = "full"
       /\ ComputeReturns /\ iteration_kind' = "incremental" => D_prev_' = D_prev_]_vars

(* C5 as amended: the previous-density cache changes only in a completed  *)
(* compute_JK iteration with INCFOCK enabled, and every such iteration,   *)
(* incremental ones included, overwrites it with the current density.     *)
C5_CacheOverwrittenEveryIteration ==
    [][/\ DerefAll(D_prev_)' # DerefAll(D_prev_) => ComputeReturns /\ incfock_
       /\ ComputeReturns /\ incfock_ => DerefAll(D_prev_)' = D_ao_]_vars

\* an incremental iteration has replaced a cache that held another density
C5_Witness ==
    /\ last_call = "compute_JK"
    /\ incfock_
    /\ iteration_kind = "incremental"
    /\ NonZero(DerefAll(D_ref_))
    /\ DerefAll(D_prev_) = D_ao_

(* C6: the first compute_JK iteration is always a full build: whatever    *)
(* INCFOCK, the density-change norm and the reset cadence are, the        *)
(* reference density is the current density and the outputs are built on  *)
(* zeroed accumulators; after any completed compute_JK the                *)
(* initial-iteration flag is false.                                       *)
C6_FirstIterationFull ==
    /\ [][ComputeReturns /\ initial_iteration_
          => /\ iteration_kind' = "full"
             /\ D_ref_' = SharePointers(D_ao_)
             /\ J_ao_' = ContributionJ(D_ao_)
             /\ K_ao_' = ContributionK(D_ao_)]_vars
    /\ [](last_call = "compute_JK" => ~initial_iteration_)

\* the first call has returned with INCFOCK on and the norm at the floor
C6_Witness ==
    /\ last_call = "compute_JK"
    /\ incfock_
    /\ Dnorm >= INCFOCK_CONVERGENCE
    /\ incfock_count_ = 0
    /\ iteration_kind = "full"
    /\ ~initial_iteration_
    /\ NonZero(J_ao_)

\* the conditions under which compute_JK builds from the full density
FullIteration ==
    \/ ~incfock_
    \/ initial_iteration_
    \/ Dnorm < INCFOCK_CONVERGENCE
    \/ incfock_count_ % options_.INCFOCK_FULL_FOCK_EVERY
           = options_.INCFOCK_FULL_FOCK_EVERY - 1
    \/ Len(D_prev_) # Len(D_ao_)

(* C7: on every full iteration (INCFOCK disabled, first iteration,        *)
(* density-change norm below the floor, reset cadence hit, or cached      *)
(* channel count different from the current one) the reference density    *)
(* handed to the builders is the current density itself and all J/K       *)
(* accumulators are zero when the builders start, so the outputs are what *)
(* the builders make of the current density alone.                        *)
C7_FullIterationFromZero ==
    [][ComputeReturns /\ FullIteration
        => /\ iteration_kind' = "full"
           /\ D_ref_' = SharePointers(D_ao_)
           /\ J_ao_' = ContributionJ(D_ao_)
           /\ K_ao_' = ContributionK(D_ao_)]_vars

\* a later full iteration forced by the reset cadence, over earlier J and K
C7_Witness ==
    /\ last_call = "compute_JK"
    /\ incfock_
    /\ iteration_kind = "full"
    /\ Dnorm >= INCFOCK_CONVERGENCE
    /\ incfock_count_ = 2
    /\ Len(D_prev_) = 1
    /\ k_type_ = LINK
    /\ NonZero(K_ao_)

\* the configurations common_init rejects
ConfigurationError(opts) ==
    \/ opts.INCFOCK_FULL_FOCK_EVERY <= 0
    \/ ParseJ(opts.SCF_TYPE) # DFDIRJ
    \/ ParseK(opts.SCF_TYPE) \notin {LINK, COSX, NONE}

(* C8: construction fails exactly when INCFOCK_FULL_FOCK_EVERY <= 0       *)
(* (whether or not INCFOCK is on), or the J selector is not DFDIRJ, or    *)
(* the K selector is none of LINK, COSX and NONE; for every other         *)
(* configuration construction completes.                                  *)
C8_ConstructionFailsExactlyWhen ==
    last_call # "none"
        => /\ status = "failed" <=> ConfigurationError(options_)
           /\ status # "failed" => j_type_ = DFDIRJ /\ k_type_ \in {LINK, COSX, NONE}

\* construction has failed on the K selector alone, with INCFOCK off
C8_Witness ==
    /\ status = "failed"
    /\ ~options_.INCFOCK
    /\ options_.INCFOCK_FULL_FOCK_EVERY > 0
    /\ j_type_ = DFDIRJ
    /\ k_type_ = <<"PK">>

(* C9: common_init splits SCF_TYPE at its first '+' into the J selector   *)
(* (the text before it) and the K selector (the text after it); whenever  *)
(* the two are identical, a tag without '+' included, the K selector      *)
(* becomes NONE.                                                          *)
C9_SplitAtFirstPlus ==
    (last_call # "none" /\ options_.INCFOCK_FULL_FOCK_EVERY > 0)
        => LET tag == options_.SCF_TYPE
           IN  IF "+" \in Range(tag)
               THEN \E i \in 1..Len(tag) :
                        /\ tag[i] = "+"
                        /\ \A k \in 1..(i - 1) : tag[k] # "+"
                        /\ j_type_ = [k \in 1..(i - 1) |-> tag[k]]
                        /\ LET after == [k \in 1..(Len(tag) - i) |-> tag[i + k]]
                           IN  k_type_ = IF after = j_type_ THEN NONE ELSE after
               ELSE j_type_ = tag /\ k_type_ = NONE

\* a tag whose two parts are identical has been parsed
C9_Witness ==
    /\ last_call # "none"
    /\ options_.SCF_TYPE = <<"DFDIRJ", "+", "DFDIRJ">>
    /\ j_type_ = DFDIRJ
    /\ k_type_ = NONE
    /\ status = "ready"

(* C10: compute_JK called with range-separated exchange (wK) requested    *)
(* raises a fatal error before touching any state: the reference density, *)
(* the J/K accumulators, the previous-density cache, the incremental      *)
(* counter, the initial-iteration flag and the benchmark statistics are   *)
(* all unchanged.                                                         *)
C10_wKFatalWithoutEffect ==
    [][(last_call = "set_density" /\ do_wK_ /\ last_call' # last_call)
        => /\ last_call' = "compute_JK_throw"
           /\ status' = "aborted"
           /\ UNCHANGED <<D_ref_, J_ao_, K_ao_, D_prev_, incfock_count_,
                          do_incfock_iter_, initial_iteration_,
                          computed_shells_per_iter_>>]_vars

\* the error has been raised in the middle of an incremental run
C10_Witness ==
    /\ last_call = "compute_JK_throw"
    /\ do_wK_
    /\ incfock_
    /\ incfock_count_ > 0
    /\ Len(D_prev_) = Len(D_ao_)
    /\ DerefAll(D_prev_) # D_ao_
    /\ NonZero(J_ao_)

----------------------------------------------------------------------------
(* C11: set_do_K(true) when the K selector is NONE raises a fatal error   *)
(* and leaves the do-K flag as it was; every other set_do_K(v) succeeds   *)
(* and leaves the flag equal to v.                                        *)
C11_SetDoK ==
    [][(status = "ready" /\ last_call' \in {"set_do_K(true)", "set_do_K(false)"})
        => LET v == last_call' = "set_do_K(true)"
           IN  IF v /\ k_type_ = NONE
               THEN status' = "aborted" /\ do_K_' = do_K_
               ELSE status' = "ready" /\ do_K_' = v]_vars

\* exchange was switched off, then requested with no K algorithm configured
C11_Witness ==
    /\ last_call = "set_do_K(true)"
    /\ status = "aborted"
    /\ k_type_ = NONE
    /\ ~do_K_

----------------------------------------------------------------------------
(* C12: build_linK invoked without the symmetric-exchange flag fails      *)
(* fatally before any work: the call is aborted, K is the matrix the      *)
(* builder was handed, num_computed_shells_ is what the J build of the    *)
(* same call left and the "Quartets" statistic has no new entry.          *)

\* compute_JK reaches build_linK and the flag is not set
LinKCalledUnsymmetric ==
    /\ status = "ready" /\ last_call = "set_density"
    /\ last_call' \in {"compute_JK", "compute_JK_throw"}
    /\ ~do_wK_ /\ do_K_ /\ k_type_ = LINK /\ ~lr_symmetric_

C12_LinKFatalBeforeWork ==
    [][LinKCalledUnsymmetric
        => /\ status' = "aborted"
           /\ last_call' = "compute_JK_throw"
           /\ K_ao_' = Preprocessed.K
           /\ num_computed_shells_' =
                  (IF do_J_
                   THEN LET D == DerefAll(Preprocessed.D_ref)
                        IN  Cardinality(Triplets1(D)) + Cardinality(Triplets2(HVectors(D)))
                   ELSE num_computed_shells_)
           /\ computed_shells_per_iter_'["Quartets"] = computed_shells_per_iter_["Quartets"]
           /\ D_prev_' = D_prev_]_vars

\* the throw on an incremental iteration, with an exchange matrix accumulated
C12_Witness ==
    /\ last_call = "compute_JK_throw" /\ status = "aborted"
    /\ k_type_ = LINK /\ do_K_ /\ ~lr_symmetric_ /\ ~do_wK_
    /\ iteration_kind = "incremental"
    /\ \E i \in DOMAIN K_ao_ : K_ao_[i] # ZeroMatrix
    /\ bench_ /\ Len(computed_shells_per_iter_["Quartets"]) = 1
    /\ Len(computed_shells_per_iter_["Triplets"]) = 2

----------------------------------------------------------------------------
(* C16: with benchmarking enabled a compute_JK call appends exactly one   *)
(* entry to "Triplets" when J is built and exactly one to "Quartets" when *)
(* K is built, each the number of integral shell blocks the builder       *)
(* evaluated after screening; with benchmarking disabled the statistics   *)
(* are unchanged.                                                         *)

\* a compute_JK call that gets past the wK check
ComputeBuilds ==
    /\ status = "ready" /\ last_call = "set_density" /\ ~do_wK_
    /\ last_call' \in {"compute_JK", "compute_JK_throw"}

\* the shell triplets of both contractions that pass their screening test
EvaluatedTriplets(D) ==
    Cardinality(Triplets1(D)) + Cardinality(Triplets2(HVectors(D)))

\* the shell quartets, or the one-electron shell pairs at grid points, for
\* which the K builder calls compute_shell
EvaluatedByK(D) ==
    IF k_type_ = LINK
    THEN LET x == Engine(D)
         IN  SumFn([ap \in atom_pairs(x) |-> Cardinality(Quartets(x, Tables(x), ap))])
    ELSE SumFn([bi \in Blocks |-> Cardinality(EvaluatedShells(D, bi))])

C16_StatisticsPerIteration ==
    [][ComputeBuilds
        => LET D == DerefAll(Preprocessed.D_ref)
               old == computed_shells_per_iter_
               new == computed_shells_per_iter_'
               builtK == do_K_ /\ k_type_ # NONE /\ last_call' = "compute_JK"
           IN  IF bench_
               THEN /\ DOMAIN new = DOMAIN old
                    /\ new["Triplets"] =
                           (IF do_J_ THEN Append(old["Triplets"], EvaluatedTriplets(D))
                            ELSE old["Triplets"])
                    /\ new["Quartets"] =
                           (IF builtK THEN Append(old["Quartets"], EvaluatedByK(D))
                            ELSE old["Quartets"])
               ELSE new = old]_vars

\* two benchmarked iterations whose J build screened some but not all of the
\* twelve triplets and whose K build evaluated quartets
C16_Witness ==
    /\ bench_ /\ last_call = "compute_JK" /\ do_K_ /\ k_type_ = LINK
    /\ Len(computed_shells_per_iter_["Triplets"]) = 2
    /\ Len(computed_shells_per_iter_["Quartets"]) = 2
    /\ computed_shells_per_iter_["Triplets"][2] \in 1..11
    /\ computed_shells_per_iter_["Quartets"][2] > 0
    /\ computed_shells_per_iter_["Triplets"][1] # computed_shells_per_iter_["Triplets"][2]

----------------------------------------------------------------------------
(* C17: incfock_count_ is the number of earlier compute_JK calls that     *)
(* were not the first iteration and had "SCF D NORM" at or above          *)
(* INCFOCK_CONVERGENCE: it starts at 0, grows by one on exactly those     *)
(* calls and is changed by nothing else, a full build included.  With     *)
(* R = INCFOCK_FULL_FOCK_EVERY, such a call with a matching cached        *)
(* channel count is incremental iff incfock_count_ mod R # R - 1; hence   *)
(* at most R - 1 consecutive iterations are incremental, none if R = 1.   *)

\* a compute_JK call that gets past the wK check
ComputeCall ==
    /\ status = "ready" /\ last_call = "set_density" /\ ~do_wK_
    /\ last_call' \in {"compute_JK", "compute_JK_throw"}

\* the call is not the first iteration and the density moved enough
CountedCall == ~initial_iteration_ /\ Dnorm >= INCFOCK_CONVERGENCE

C17_ResetCadence ==
    [][LET R == options_.INCFOCK_FULL_FOCK_EVERY
       IN  /\ (status = "new") => incfock_count_ = 0
           /\ (status # "new" /\ ~ComputeCall) => incfock_count_' = incfock_count_
           /\ (ComputeCall /\ incfock_)
                  => incfock_count_' = incfock_count_ + (IF CountedCall THEN 1 ELSE 0)
           /\ (ComputeCall /\ CountedCall /\ Len(D_prev_) = Len(D_ao_))
                  => (iteration_kind' = "incremental" <=> incfock_count_ % R # R - 1)
           /\ ComputeCall
                  => /\ iteration_kind' = "incremental" => iters_since_full' <= R - 1
                     /\ R = 1 => iteration_kind' # "incremental"]_vars

\* R = 2: an incremental iteration, a full one forced by the cadence, and
\* an incremental one again, the counter having run on through the full build
C17_Witness ==
    /\ last_call = "compute_JK" /\ incfock_
    /\ options_.INCFOCK_FULL_FOCK_EVERY = 2
    /\ incfock_count_ = 3
    /\ iteration_kind = "incremental" /\ iters_since_full = 1

----------------------------------------------------------------------------
(* C15: for a symmetric input density every J matrix is symmetric after   *)
(* every completed build, and every K matrix is symmetric provided the    *)
(* exchange build was declared symmetric; a COSX exchange matrix built    *)
(* without the declaration is not symmetrized.                            *)

Symmetric(M) == \A m \in BF, n \in BF : M[m, n] = M[n, m]

\* a build has completed on symmetric densities
BuildCompleted ==
    /\ last_call = "compute_JK"
    /\ \A i \in DOMAIN D_ao_ : Symmetric(D_ao_[i])

\* the claim as stated: J and K symmetric for all three builders
C15_AllOutputsSymmetric ==
    BuildCompleted
        => /\ \A i \in DOMAIN J_ao_ : Symmetric(J_ao_[i])
           /\ \A i \in DOMAIN K_ao_ : Symmetric(K_ao_[i])

\* C15 as amended: K is symmetric when the exchange build was declared
\* symmetric
C15_SymmetricWhenDeclared ==
    BuildCompleted
        => /\ \A i \in DOMAIN J_ao_ : Symmetric(J_ao_[i])
           /\ lr_symmetric_ => \A i \in DOMAIN K_ao_ : Symmetric(K_ao_[i])

\* an incremental COSX build declared symmetric, with exchange accumulated
C15_Witness ==
    /\ BuildCompleted /\ lr_symmetric_ /\ do_K_ /\ k_type_ = COSX
    /\ iteration_kind = "incremental"
    /\ \E i \in DOMAIN K_ao_ : K_ao_[i] # ZeroMatrix /\ K_ao_[i][1, 2] # 0
    /\ \E i \in DOMAIN J_ao_ : J_ao_[i][1, 2] # 0

----------------------------------------------------------------------------
(* C18: after the parallel ceiling loop of build_linK, for every          *)
(* interleaving of the threads, shell_ceilings[P] is the maximum over all *)
(* partner shells Q of sqrt(shell_ceiling2(P, Q, P, Q)): no update of a   *)
(* ceiling is lost.                                                       *)

CeilingLoopOver == build.phase \in {"tasks", "done"}

C18_NoLostCeilingUpdate ==
    CeilingLoopOver
        => \A P \in Shells :
               build.shell_ceilings[P]
                   = Max({Sqrt(shell_ceiling2(build.x, P, Q, P, Q)) : Q \in Shells})

----------------------------------------------------------------------------
(* C20: with all cutoffs passing and a symmetric density, build_linK      *)
(* yields K[m][n] = sum over l, s of D[l][s] (ml|ns) for every m, n.      *)

\* every test of the pre-selection, of the mini-list scans and of the
\* quartet loop passes for every candidate
AllCutoffsPassing(x, s) ==
    /\ \A P \in Shells :
           /\ Range(s.significant_bras[P]) = Shells
           /\ Range(s.significant_kets[P]) = Shells
    /\ \A P \in Shells, Q \in Shells, R \in Shells, S \in Shells :
           /\ shell_pair_significant(x, P, Q)
           /\ shell_significant(x, P, Q, R, S)
           /\ compute_shell(x, P, Q, R, S) # 0
           /\ screen_val(x, P, P, Q, R, S) >= x.linK_ints_cutoff_
           /\ screen_val(x, Q, P, Q, R, S) >= x.linK_ints_cutoff_

\* the build has returned
LinKDone == build.phase = "done"

C20_UnscreenedLinKIsExchange ==
    (LinKDone /\ AllCutoffsPassing(build.x, build.s)
              /\ \A ind \in DOMAIN build.x.D : \A m \in BF, n \in BF :
                     build.x.D[ind][m, n] = build.x.D[ind][n, m])
        => \A ind \in DOMAIN build.x.D : \A m \in BF, n \in BF :
               K_ao_[ind][m, n]
                   = SumFn([ls \in BF \X BF |->
                               build.x.D[ind][ls[1], ls[2]]
                                   * Integral(build.x, m, ls[1], n, ls[2])])

\* an unscreened build on two threads whose exchange matrix has off-diagonal
\* elements
C20_Witness ==
    /\ LinKDone /\ AllCutoffsPassing(build.x, build.s)
    /\ build.nthreads = 2 /\ build.ran = {1, 2}
    /\ build.computed_shells = 6
    /\ K_ao_[1][1, 2] # 0 /\ K_ao_[1][1, 1] # K_ao_[1][2, 2]

(**************************************************************************)
(* C13: provided the bound max_density * sqrt(shell_ceiling2(P, Q, R, S)) *)
(* is non-increasing along each sorted neighbour list, the breaks of the  *)
(* S-scan and of the R-scan skip no passing candidate: ML_PQ is the set   *)
(* an exhaustive scan of every R of the ket list and every S of R's bra   *)
(* list produces.                                                         *)
(**************************************************************************)

\* the sorted lists exist: the pre-selection of build_linK is over
ListsBuilt == build.phase \in {"tasks", "done"}

NonIncreasing(seq, f(_)) == \A i \in 1..(Len(seq) - 1) : f(seq[i]) >= f(seq[i + 1])

\* the largest bound of the candidates (R, S) of one R
BestBound(x, s, T, P, Q, R) ==
    Max({0} \cup {screen_val(x, T, P, Q, R, S) : S \in Range(s.significant_bras[R])})

\* the bound does not increase along the bra list of any R of T's ket
\* list, and the best bound of R does not increase along T's ket list
BoundMonotone(x, s, T, P, Q) ==
    /\ \A R \in Range(s.significant_kets[T]) :
           NonIncreasing(s.significant_bras[R], LAMBDA S : screen_val(x, T, P, Q, R, S))
    /\ NonIncreasing(s.significant_kets[T], LAMBDA R : BestBound(x, s, T, P, Q, R))

\* the scan of T's lists without any break
ExhaustiveScan(x, s, T, P, Q) ==
    {rs \in Shells \X Shells :
        /\ rs[1] \in Range(s.significant_kets[T])
        /\ rs[2] \in Range(s.significant_bras[rs[1]])
        /\ screen_val(x, T, P, Q, rs[1], rs[2]) >= x.linK_ints_cutoff_
        /\ CanonicalRS(rs[1], rs[2]) <= ShellIndex(P, Q)}

ExhaustiveML_PQ(x, s, P, Q) ==
    {CanonicalRS(rs[1], rs[2]) :
        rs \in ExhaustiveScan(x, s, P, P, Q) \cup ExhaustiveScan(x, s, Q, P, Q)}

\* the bound is monotone in both scans of the bra pair (P, Q)
MonotonePair(x, s, P, Q) ==
    Q <= P /\ BoundMonotone(x, s, P, P, Q) /\ BoundMonotone(x, s, Q, P, Q)

\* the R-scan of a list of (P, Q) ends at its break
RBreakTaken(x, s, P, Q) ==
    \E T \in {P, Q} : Len(ScannedR(x, s, T, P, Q)) < Len(s.significant_kets[T])

\* an S-scan of a list of (P, Q) ends at its break
SBreakTaken(x, s, P, Q) ==
    \E T \in {P, Q} : \E R \in Range(ScannedR(x, s, T, P, Q)) :
        Len(ScannedS(x, s, T, P, Q, R)) < Len(s.significant_bras[R])

C13_EarlyExitSound ==
    ListsBuilt
        => \A P \in Shells, Q \in Shells :
               MonotonePair(build.x, build.s, P, Q)
                   => ML_PQ(build.x, build.s, P, Q)
                          = ExhaustiveML_PQ(build.x, build.s, P, Q)

\* a build with monotone bounds in which an R-scan and an S-scan end at
\* their breaks and candidates are retained
C13_Witness ==
    /\ ListsBuilt
    /\ \E P \in Shells, Q \in Shells :
           /\ MonotonePair(build.x, build.s, P, Q)
           /\ shell_pair_significant(build.x, P, Q)
           /\ RBreakTaken(build.x, build.s, P, Q)
           /\ ML_PQ(build.x, build.s, P, Q) # {}
    /\ \E P \in Shells, Q \in Shells :
           /\ MonotonePair(build.x, build.s, P, Q)
           /\ shell_pair_significant(build.x, P, Q)
           /\ SBreakTaken(build.x, build.s, P, Q)
           /\ ML_PQ(build.x, build.s, P, Q) # {}

(**************************************************************************)
(* C19: within one atom-pair task, every element of the local sub-blocks  *)
(* PR, PS, QR, QS that received a contribution in the quartet loop is     *)
(* added to the shared K by the stripeout of the task: the stripeout sets *)
(* contain the column shell of every touched (row shell, column shell)    *)
(* pair; K elements outside the stripeout sets are not written.           *)
(**************************************************************************)

\* the atom-pair tasks that have run
TasksRun == {atom_pair_list(build.x)[i] : i \in 1..(build.next - 1)}

\* the (row shell, column shell) pairs the quartet loop of the task writes
\* in K1p and K2p (rows of P) and in K3p and K4p (rows of Q)
TouchedP(x, s, ap) ==
    UNION {{<<q[1], q[3]>>, <<q[1], q[4]>>} : q \in Quartets(x, s, ap)}

TouchedQ(x, s, ap) ==
    UNION {{<<q[2], q[3]>>, <<q[2], q[4]>>} : q \in Quartets(x, s, ap)}

\* the stripeout lists hold the column shell of every touched pair
StripeoutCovers(x, s, ap) ==
    /\ \A pc \in TouchedP(x, s, ap) : pc[2] \in P_stripeout_list(x, s, ap, pc[1])
    /\ \A qc \in TouchedQ(x, s, ap) : qc[2] \in Q_stripeout_list(x, s, ap, qc[1])

\* element (m, n) is in a P row (a Q row) and its column shell is in the
\* stripeout list of its row shell
InPList(x, s, ap, m, n) ==
    \E P \in ShellsOfAtom(ap[1]), S \in Shells :
        m \in FunctionsOf(P) /\ n \in FunctionsOf(S) /\ S \in P_stripeout_list(x, s, ap, P)

InQList(x, s, ap, m, n) ==
    \E Q \in ShellsOfAtom(ap[2]), S \in Shells :
        m \in FunctionsOf(Q) /\ n \in FunctionsOf(S) /\ S \in Q_stripeout_list(x, s, ap, Q)

\* a local element with a contribution whose column shell is in no list
Discarded(x, s, ap) ==
    \E ind \in DOMAIN x.D, m \in BF, n \in BF :
        LET KTp == LocalK(x, s, ap, ind)
        IN  \/ KTp[1, m, n] + KTp[2, m, n] # 0 /\ ~InPList(x, s, ap, m, n)
            \/ KTp[3, m, n] + KTp[4, m, n] # 0 /\ ~InQList(x, s, ap, m, n)

\* the claim as stated: every touched element is covered by the lists
C19_StripeoutCoversTouched ==
    ListsBuilt => \A ap \in TasksRun : StripeoutCovers(build.x, build.s, ap)

\* a step of the task loop: one atom-pair task from its mini-lists to the
\* end of its stripeout
TaskStep == build.phase = "tasks" /\ build'.next = build.next + 1

\* the amended claim: the stripeout of a task adds to K, scaled by 2, the
\* local elements whose column shell is in the list of their row shell and
\* writes no other element of K; when every screening test passes the
\* lists hold the column shell of every touched pair
C19_StripeoutWithinLists ==
    [][TaskStep =>
        LET x == build.x
            s == build.s
            ap == atom_pair_list(x)[build.next]
        IN  /\ \A ind \in DOMAIN x.D, m \in BF, n \in BF :
                   LET KTp == LocalK(x, s, ap, ind)
                   IN  build'.K8[ind][m, n] - build.K8[ind][m, n]
                           = (IF InPList(x, s, ap, m, n)
                              THEN 2 * (KTp[1, m, n] + KTp[2, m, n]) ELSE 0)
                             + (IF InQList(x, s, ap, m, n)
                                THEN 2 * (KTp[3, m, n] + KTp[4, m, n]) ELSE 0)
            /\ AllCutoffsPassing(x, s) => StripeoutCovers(x, s, ap)]_vars

\* a task has run whose stripeout added elements to K and discarded a
\* local element with a contribution
C19_Witness ==
    /\ ListsBuilt
    /\ \E ap \in TasksRun :
           /\ Discarded(build.x, build.s, ap)
           /\ \E ind \in DOMAIN build.x.D, m \in BF, n \in BF :
                  Stripeout(build.x, build.s, ap, ind)[m, n] # 0

(**************************************************************************)
(* C14: in exact arithmetic the J and K of a build are the same for every *)
(* number of threads and every assignment of the tasks to the threads.    *)
(* For build_linK: the K of a build with any team of threads is a K the   *)
(* build produces with one thread.                                        *)
(**************************************************************************)

\* the K build_linK returns with one thread: no update of the ceiling loop
\* is lost, the lists are in an order the sort can leave them in, and the
\* tasks run one after the other
SingleThreadK(x, K) ==
    {[ind \in DOMAIN K |->
         LET K8 == Hermitivitized8(K[ind], StripeoutSum(x, s, ind))
         IN  [m \in BF, n \in BF |-> K8[m, n] \div 8]] :
        s \in ScreeningTables(x, shell_ceilings_of(x))}

C14_ThreadCountInvariant ==
    LinKDone => K_ao_ \in SingleThreadK(build.x, build.K)

(**************************************************************************)
(* C26: for every shell P the bra neighbour list holds exactly the shells *)
(* Q whose Schwarz bound exceeds the global cutoff and the ket neighbour  *)
(* list exactly the shells R whose ceiling(P) * ceiling(R) *              *)
(* density-bound(P, R) exceeds the LinK cutoff, each shell at most once,  *)
(* and in both lists the sort bound does not increase with the position.  *)
(* The ceiling of a shell is its largest bound over all partner shells.   *)
(**************************************************************************)

\* a list without repetitions
NoDuplicates(seq) == \A i \in 1..Len(seq), j \in 1..Len(seq) : seq[i] = seq[j] => i = j

\* the sort bound of the ket list with the ceilings as the claim defines them
KetBound(x, P, R) == ket_screen_val(x, shell_ceilings_of(x), P, R)

C26_NeighbourLists ==
    ListsBuilt
        => \A P \in Shells :
               LET bras == build.s.significant_bras[P]
                   kets == build.s.significant_kets[P]
               IN  /\ Range(bras)
                          = {Q \in Shells :
                                schwarz_value2(build.x, P, Q)
                                    > build.x.cutoff_ * build.x.cutoff_}
                   /\ Range(kets)
                          = {R \in Shells :
                                KetBound(build.x, P, R) > build.x.linK_ints_cutoff_}
                   /\ NoDuplicates(bras) /\ NoDuplicates(kets)
                   /\ \A i \in 1..(Len(bras) - 1) :
                          schwarz_value2(build.x, P, bras[i])
                              >= schwarz_value2(build.x, P, bras[i + 1])
                   /\ \A i \in 1..(Len(kets) - 1) :
                          KetBound(build.x, P, kets[i]) >= KetBound(build.x, P, kets[i + 1])

----------------------------------------------------------------------------
(* C23 (as stated): the first contraction of build_DirectDFJ skips the     *)
(* triplet (P; M, N) exactly when                                          *)
(*   (largest |D| of the shell pair) * (metric diagonal bound of P)        *)
(*     * (Schwarz bound of the shell pair) < INTS_TOLERANCE^2,             *)
(* and evaluates and counts it otherwise.                                  *)
(* C23 (amended): the same with the density bound squared in the product.  *)

\* the three bounds of the test
DensityBound(D, M, N) ==
    Max({0} \cup {Abs(D[jki][m, n]) :
                    jki \in DOMAIN D, m \in FunctionsOf(M), n \in FunctionsOf(N)})

MetricBound(P) == Max({0} \cup {J_metric(p, p) : p \in AuxFunctionsOf(P)})

SchwarzBound(M, N) ==
    Max({PairValue(m, n) * PairValue(m, n) : m \in FunctionsOf(M), n \in FunctionsOf(N)})

\* the product of the three bounds, and the product with the first squared
BoundProduct(D, i) ==
    LET T == TripletOrder[i]
    IN  DensityBound(D, T.M, T.N) * MetricBound(T.P) * SchwarzBound(T.M, T.N)

BoundProductSquaredD(D, i) ==
    LET T == TripletOrder[i]
    IN  DensityBound(D, T.M, T.N) * DensityBound(D, T.M, T.N)
            * MetricBound(T.P) * SchwarzBound(T.M, T.N)

\* a step of the first triplet loop
ForwardStep ==
    build.kind = "DFJ" /\ build.phase = "forward" /\ build'.next > build.next

\* the step counted and added to G exactly the triplets of ev
ForwardEvaluates(ev) ==
    /\ build'.computed_triplets1 = build.computed_triplets1 + Cardinality(ev)
    /\ \A jki \in DOMAIN build.D, p \in AUX :
           SumGT(build'.GT, jki)[p]
               = SumGT(build.GT, jki)[p]
                   + SumFn([i \in ev |->
                         GTerm(build.D, jki, TripletOrder[i].M, TripletOrder[i].N,
                               TripletOrder[i].P)[p]])

C23_ForwardScreenAsStated ==
    [][ForwardStep
        => ForwardEvaluates({i \in build.next..(build'.next - 1) :
                                ~(BoundProduct(build.D, i) < build.thresh2)})]_vars

C23_ForwardScreen ==
    [][ForwardStep
        => ForwardEvaluates({i \in build.next..(build'.next - 1) :
                                ~(BoundProductSquaredD(build.D, i) < build.thresh2)})]_vars

\* the first loop has skipped a triplet and evaluated one on which the two
\* products are on different sides of the tolerance
C23_Witness ==
    /\ build.kind = "DFJ" /\ build.phase = "forward" /\ build.next > nshelltriplet
    /\ \E i \in 1..nshelltriplet : BoundProductSquaredD(build.D, i) < build.thresh2
    /\ \E i \in 1..nshelltriplet :
           /\ BoundProduct(build.D, i) < build.thresh2
           /\ ~(BoundProductSquaredD(build.D, i) < build.thresh2)
    /\ build.computed_triplets1 \in 1..(nshelltriplet - 1)

----------------------------------------------------------------------------
(* C24: the second triplet loop of build_DirectDFJ screens with shell      *)
(* maxima of H that are computed after the metric solve of the same call,  *)
(* the largest |H| over all channels and all functions of the auxiliary    *)
(* shell; it uses no bound of the first loop and none of an earlier build, *)
(* and it starts only after every iteration of the first loop has run and  *)
(* the solve is done.                                                      *)

\* the solution of the metric equations for the G of the whole first loop,
\* computed from the density
SolvedH(D, th) ==
    [jki \in DOMAIN D |->
        [p \in AUX |->
            SumFn([i \in ForwardEvaluated(D, th, 1, nshelltriplet) |->
                GTerm(D, jki, TripletOrder[i].M, TripletOrder[i].N, TripletOrder[i].P)[p]])
            \div J_metric(p, p)]]

\* the largest |H| of an auxiliary shell
MaxAbsH(H, P) ==
    Max({0} \cup {Abs(H[jki][p]) : jki \in DOMAIN H, p \in AuxFunctionsOf(P)})

\* a step of the second triplet loop
BackStep ==
    build.kind = "DFJ" /\ build.phase = "back" /\ build'.next > build.next

\* the bound the second loop evaluates for iteration i
BackProduct(H, i) ==
    LET T == TripletOrder[i]
    IN  MaxAbsH(H, T.P) * MaxAbsH(H, T.P) * MetricBound(T.P) * SchwarzBound(T.M, T.N)

C24_BackScreenUsesSolvedH ==
    [][BackStep
        => LET H == SolvedH(build.D, build.thresh2)
               ev == {i \in build.next..(build'.next - 1) :
                         ~(BackProduct(H, i) < build.thresh2)}
           IN  /\ build.H = H
               /\ \A P \in AuxShells : build.H_shell_max[P] = MaxAbsH(H, P)
               /\ build.computed_triplets1
                      = Cardinality(ForwardEvaluated(build.D, build.thresh2, 1,
                                                     nshelltriplet))
               /\ build.merged.GT = [i \in 1..build.nthreads |-> 1]
               /\ build'.computed_triplets2 = build.computed_triplets2 + Cardinality(ev)
               /\ \A jki \in DOMAIN build.D, m \in BF, n \in BF :
                      SumKT(build'.JT, jki)[m, n]
                          = SumKT(build.JT, jki)[m, n]
                              + SumFn([i \in ev |->
                                    JTerm(H, jki, TripletOrder[i].M, TripletOrder[i].N,
                                          TripletOrder[i].P)[m, n]])]_vars

\* the second loop has run, skipped a triplet that the first loop evaluated
\* and evaluated one that the first loop skipped
C24_Witness ==
    /\ build.kind = "DFJ" /\ build.phase = "back" /\ build.next > nshelltriplet
    /\ \E i \in 1..nshelltriplet :
           /\ BackProduct(build.H, i) < build.thresh2
           /\ ~(BoundProductSquaredD(build.D, i) < build.thresh2)
    /\ \E i \in 1..nshelltriplet :
           /\ ~(BackProduct(build.H, i) < build.thresh2)
           /\ BoundProductSquaredD(build.D, i) < build.thresh2

----------------------------------------------------------------------------
(* C25: with the screening of build_DirectDFJ disabled (tolerance 0), the  *)
(* loops over the shell pairs N <= M, which add both triangles when        *)
(* N # M, give G[p] = sum over all ordered function pairs (m, n) of        *)
(* (p|mn) D[m][n] after the first loop and, summed over the threads,       *)
(* J[m][n] = J[n][m] = sum over p of (p|mn) H[p] after the second; the     *)
(* diagonal shell pairs are counted once.                                  *)

\* the loop of the named phase has run all its iterations
LoopOver(phase) ==
    build.kind = "DFJ" /\ build.phase = phase /\ build.next > nshelltriplet

\* the contractions over the full index ranges
FullG(D, jki) ==
    [p \in AUX |-> SumFn([mn \in BF \X BF |-> Eri3(p, mn[1], mn[2]) * D[jki][mn[1], mn[2]]])]

FullJ(H, jki) ==
    [m \in BF, n \in BF |-> SumFn([p \in AUX |-> Eri3(p, m, n) * H[jki][p]])]

C25_BraSymmetryComplete ==
    /\ (LoopOver("forward") /\ build.thresh2 = 0)
           => \A jki \in DOMAIN build.D : SumGT(build.GT, jki) = FullG(build.D, jki)
    /\ (LoopOver("back") /\ build.thresh2 = 0)
           => \A jki \in DOMAIN build.D, m \in BF, n \in BF :
                  /\ SumKT(build.JT, jki)[m, n] = FullJ(build.H, jki)[m, n]
                  /\ SumKT(build.JT, jki)[m, n] = SumKT(build.JT, jki)[n, m]

\* both loops have run without screening on a density that is not symmetric,
\* with contributions of a diagonal and of an off-diagonal shell pair
C25_Witness ==
    /\ LoopOver("back") /\ build.thresh2 = 0
    /\ build.D[1][1, 2] # build.D[1][2, 1]
    /\ build.D[1][1, 1] # 0
    /\ build.computed_triplets1 = nshelltriplet
    /\ build.computed_triplets2 = nshelltriplet
    /\ SumKT(build.JT, 1)[2, 1] # 0 /\ SumKT(build.JT, 1)[1, 1] # 0
    /\ build.nthreads > 1 /\ build.ran = 1..build.nthreads

----------------------------------------------------------------------------
(* C29 (as stated): after a COSX exchange build with benchmarking on, the  *)
(* benchmark statistics hold an entry for the number of integral shells    *)
(* the build evaluated and another entry for the number of candidate       *)
(* shells it considered, and the evaluated count is not larger than the    *)
(* candidate count.                                                        *)
(* C29 (amended): the build records the number of evaluated integral       *)
(* shells only: it is stored in num_computed_shells_ and, with             *)
(* benchmarking on, appended as the one new entry of the "Quartets" list;  *)
(* with benchmarking off the lists are unchanged.  The candidate count is  *)
(* accumulated by the grid loop and recorded nowhere; the evaluated count  *)
(* is not larger than it.                                                  *)

\* the end of build_COSK: the reduction and the statistics
COSXBuild ==
    build.kind = "COSK" /\ build.phase = "grid" /\ build'.phase = "done"

\* the positions <<key, i>> of the statistics that the step filled
AddedByK(old, new) ==
    {e \in UNION {{k} \X (1..Len(new[k])) : k \in DOMAIN new} :
        e[1] \in DOMAIN old => e[2] > Len(old[e[1]])}

\* the shell pairs at grid points for which compute_shell is called, and
\* those that reach the screening tests, over all blocks
EvaluatedCount(D) == Cardinality(UNION {{bi} \X EvaluatedShells(D, bi) : bi \in Blocks})

CandidateCount(D) ==
    Cardinality(UNION {{bi} \X (CandidatePairs(D, bi) \X PointsOf(bi)) : bi \in Blocks})

C29_BothCountsRecorded ==
    [][(COSXBuild /\ bench_)
        => LET new == computed_shells_per_iter_'
               added == AddedByK(computed_shells_per_iter_, new)
           IN  /\ \E e1 \in added, e2 \in added :
                      /\ e1 # e2
                      /\ new[e1[1]][e1[2]] = EvaluatedCount(build.D)
                      /\ new[e2[1]][e2[2]] = CandidateCount(build.D)
               /\ EvaluatedCount(build.D) <= CandidateCount(build.D)]_vars

C29_EvaluatedCountRecorded ==
    [][COSXBuild
        => LET new == computed_shells_per_iter_'
               added == AddedByK(computed_shells_per_iter_, new)
           IN  /\ num_computed_shells_' = EvaluatedCount(build.D)
               /\ bench_ => /\ added = {<<"Quartets", Len(new["Quartets"])>>}
                            /\ new["Quartets"][Len(new["Quartets"])]
                                   = EvaluatedCount(build.D)
               /\ ~bench_ => new = computed_shells_per_iter_
               /\ build.int_shells_total = CandidateCount(build.D)
               /\ EvaluatedCount(build.D) <= CandidateCount(build.D)]_vars

\* a benchmarked COSX build that screened some candidates and evaluated others
C29_Witness ==
    /\ build.kind = "COSK" /\ build.phase = "done" /\ bench_
    /\ computed_shells_per_iter_["Quartets"] = <<build.int_shells_computed>>
    /\ build.int_shells_computed > 0
    /\ build.int_shells_computed < build.int_shells_total

----------------------------------------------------------------------------
(* C28: in a grid block of build_COSK, for two distinct shells NU, TAU     *)
(* that are both density-significant in the block and whose extents        *)
(* overlap, the integral is evaluated at most once per grid point and its  *)
(* product with F is added to both rows of G (row nu with F of tau, row    *)
(* tau with F of nu); G is the sum of the terms so added, and these        *)
(* include every term that the evaluation of the ordered pairs (TAU, NU)   *)
(* and (NU, TAU) one by one, each under its own block and point tests,     *)
(* adds.                                                                   *)

\* the blocks the grid loop has run
BlocksRun == {bi \in Blocks : build.kind = "COSK" /\ bi < build.next}

\* two distinct significant shells with overlapping extents
SymmetricPair(D, bi, NU, TAU) ==
    /\ NU # TAU
    /\ NU \in shell_map_tau(D, bi) /\ TAU \in shell_map_tau(D, bi)
    /\ NU \in shell_extent_map(TAU) /\ TAU \in shell_extent_map(NU)

\* the terms <<nu, tau, g>>, "A_{nu tau}(g) F_tau(g) added to G_nu(g)", of
\* the evaluation one ordered pair at a time: the pair <<TAU, NU>> has its
\* own tests
OrderedTerms(D, bi) ==
    {t \in BF \X BF \X PointsOf(bi) :
        \E NU \in Shells, TAU \in shell_map_tau(D, bi) :
            /\ t[1] \in FunctionsOf(NU) /\ t[2] \in FunctionsOf(TAU)
            /\ NU \in shell_extent_map(TAU)
            /\ ~(X_block_max(bi) * esp_bound(NU, TAU) * F_block_gmax(D, bi)[TAU] < kscreen)
            /\ ~(X_block_bfmax(t[3], bi) * esp_bound(NU, TAU) * dist_decay(t[3], NU, TAU)
                     * F_block_shell(D, bi)[t[3], TAU] < kscreen)}

\* the terms the block adds: for every evaluated integral the term of the
\* pair and, for a symmetric pair, the mirrored term
AddedTerms(D, bi) ==
    {t \in BF \X BF \X PointsOf(bi) :
        \E e \in EvaluatedShells(D, bi) :
            LET TAU == e[1][1]
                NU == e[1][2]
            IN  /\ e[2] = t[3]
                /\ \/ t[1] \in FunctionsOf(NU) /\ t[2] \in FunctionsOf(TAU)
                   \/ /\ SymmetricPair(D, bi, NU, TAU)
                      /\ t[1] \in FunctionsOf(TAU) /\ t[2] \in FunctionsOf(NU)}

\* G as the sum of a set of terms, each once
TermSum(D, jki, bi, terms) ==
    [r \in BF, g \in PointsOf(bi) |->
        SumFn([t \in {t \in terms : t[1] = r /\ t[3] = g} |->
            Aval(g, t[1], t[2]) * FBlock(D, jki, bi)[g, t[2]]])]

C28_SymmetricEvaluation ==
    \A bi \in BlocksRun :
        /\ \A NU \in Shells, TAU \in Shells, g \in PointsOf(bi) :
               SymmetricPair(build.D, bi, NU, TAU)
                   => Cardinality({e \in EvaluatedShells(build.D, bi) :
                                      e[2] = g /\ {e[1][1], e[1][2]} = {NU, TAU}}) <= 1
        /\ OrderedTerms(build.D, bi) \subseteq AddedTerms(build.D, bi)
        /\ \A jki \in DOMAIN build.D :
               GBlock(build.D, jki, bi)
                   = TermSum(build.D, jki, bi, AddedTerms(build.D, bi))

\* a block with a symmetric pair whose integral was evaluated although one
\* of the two ordered pairs fails its own test, and the contribution of the
\* pair to both rows of G is in K
C28_Witness ==
    \E bi \in BlocksRun :
        \E e \in EvaluatedShells(build.D, bi) :
            /\ SymmetricPair(build.D, bi, e[1][2], e[1][1])
            /\ AddedTerms(build.D, bi) # OrderedTerms(build.D, bi)
            /\ GBlock(build.D, 1, bi)[e[1][1], e[2]] # 0
            /\ \E t \in DOMAIN build.KT : build.KT[t][1] # ZeroMatrix

----------------------------------------------------------------------------
(* C30: when a thread of build_linK runs several atom-pair tasks one after *)
(* the other, the rows of its buffers that a task uses hold, after the     *)
(* quartet loop, the contributions of that task alone (they are zero when  *)
(* its first quartet is accumulated), so every value the task adds to K is *)
(* its own contribution; a task that evaluates no quartet leaves the       *)
(* buffers alone and adds nothing to K.                                    *)

\* a thread takes a task in this step
TakeStep ==
    /\ build.kind = "linK" /\ build.phase = "tasks"
    /\ build'.next = build.next + 1

\* thread t makes an atomic add in this step
Commits(t) ==
    /\ build.kind = "linK" /\ build.phase = "tasks"
    /\ t \in 1..build.nthreads
    /\ build.thr[t].pc = "stripeout"
    /\ build'.thr[t].todo = Tail(build.thr[t].todo)

\* the atom whose functions are the rows of buffer b
RowAtom(ap, b) == IF b <= 2 THEN ap[1] ELSE ap[2]

\* the contribution of the task alone to buffer b at the row of function m
\* and column n, scaled by 2
OwnContribution(job, ind, b, m, n) == 2 * job.local[ind][b, m, n]

C30_NoStaleContribution ==
    [][/\ TakeStep
           => LET job == build.tasks[build.next]
                  t == CHOOSE t \in 1..build.nthreads : build'.thr[t].ipair = build.next
              IN  IF job.computed = 0
                  THEN /\ build'.thr[t].KT = build.thr[t].KT
                       /\ build'.thr[t].pc = "idle"
                       /\ build'.K8 = build.K8
                  ELSE \A ind \in DOMAIN build.x.D, b \in 1..4, n \in BF :
                           \A m \in FunctionsOfAtom(RowAtom(job.ap, b)) :
                               build'.thr[t].KT[ind][b, LocalRow(RowAtom(job.ap, b), m), n]
                                   = OwnContribution(job, ind, b, m, n)
       /\ \A t \in 1..MaxThreads :
              Commits(t)
                  => LET a == Head(build.thr[t].todo)
                         job == build.tasks[build.thr[t].ipair]
                     IN  build'.K8
                             = [build.K8 EXCEPT ![a.ind] = [@ EXCEPT ![a.m, a.n] =
                                   @ + OwnContribution(job, a.ind, a.b, a.m, a.n)]]]_vars

\* one thread has run a task that evaluated no quartet and two tasks in a
\* row that both evaluated quartets, the first of which left a value in a
\* buffer element that the second adds to K
C30_Witness ==
    /\ build.kind = "linK" /\ build.nthreads = 1 /\ build.thr[1].pc = "idle"
    /\ \E i \in 1..(build.next - 1) : build.tasks[i].computed = 0
    /\ \E i \in 1..(build.next - 2) :
           LET job1 == build.tasks[i]
               job2 == build.tasks[i + 1]
           IN  /\ Quartets(build.x, build.s, job1.ap) # {}
               /\ Quartets(build.x, build.s, job2.ap) # {}
               /\ \E a \in Range(job2.list) :
                      \E m1 \in FunctionsOfAtom(RowAtom(job1.ap, a.b)) :
                          /\ LocalRow(RowAtom(job1.ap, a.b), m1)
                                 = LocalRow(RowAtom(job2.ap, a.b), a.m)
                          /\ OwnContribution(job1, a.ind, a.b, m1, a.n) # 0
                          /\ OwnContribution(job1, a.ind, a.b, m1, a.n)
                                 # OwnContribution(job2, a.ind, a.b, a.m, a.n)

----------------------------------------------------------------------------
(* C21: the atomic adds of the stripeouts of concurrent atom-pair tasks    *)
(* lose no update, however they interleave: at every moment each element   *)
(* of the shared K is its value before the loop plus the sum of the        *)
(* contributions added to it so far by all tasks, and after the loop it is *)
(* that value plus the sum of the stripeouts of all tasks.                 *)

\* the adds of the task ipair made so far: none before it is taken, those
\* no longer in the list of the thread that runs it, all when it is over
AddsMade(ipair) ==
    LET job == build.tasks[ipair]
        runs == {t \in 1..build.nthreads :
                    build.thr[t].ipair = ipair /\ build.thr[t].pc = "stripeout"}
    IN  IF ipair >= build.next \/ ~job.touched THEN {}
        ELSE IF runs = {} THEN 1..Len(job.list)
        ELSE 1..(Len(job.list) - Len(build.thr[CHOOSE t \in runs : TRUE].todo))

\* the sum of the contributions added so far to the element m, n of K[ind]
AddedSoFar(ind, m, n) ==
    SumFn([e \in UNION {{ipair} \X AddsMade(ipair) : ipair \in DOMAIN build.tasks} |->
        LET job == build.tasks[e[1]]
            a == job.list[e[2]]
        IN  IF a.ind = ind /\ a.m = m /\ a.n = n
            THEN OwnContribution(job, a.ind, a.b, a.m, a.n) ELSE 0])

C21_NoLostStripeoutUpdate ==
    build.kind = "linK"
        => /\ \A ind \in DOMAIN build.x.D, m \in BF, n \in BF :
                  build.K8[ind][m, n] = AddedSoFar(ind, m, n)
           /\ build.phase = "done"
                  => \A ind \in DOMAIN build.x.D :
                         /\ build.K8[ind] = StripeoutSum(build.x, build.s, ind)
                         /\ \A m \in BF, n \in BF :
                                K_ao_[ind][m, n]
                                    = Hermitivitized8(build.K[ind], build.K8[ind])[m, n]
                                          \div 8

\* two threads are in their stripeouts at once, each has added a non-zero
\* contribution to the same element of K and has more to add
C21_Witness ==
    /\ build.kind = "linK" /\ build.phase = "tasks"
    /\ \E t1 \in 1..build.nthreads, t2 \in 1..build.nthreads :
           /\ t1 # t2
           /\ build.thr[t1].pc = "stripeout" /\ build.thr[t2].pc = "stripeout"
           /\ \E i1 \in AddsMade(build.thr[t1].ipair), i2 \in AddsMade(build.thr[t2].ipair) :
                  LET job1 == build.tasks[build.thr[t1].ipair]
                      job2 == build.tasks[build.thr[t2].ipair]
                      a1 == job1.list[i1]
                      a2 == job2.list[i2]
                  IN  /\ <<a1.ind, a1.m, a1.n>> = <<a2.ind, a2.m, a2.n>>
                      /\ OwnContribution(job1, a1.ind, a1.b, a1.m, a1.n) # 0
                      /\ OwnContribution(job2, a2.ind, a2.b, a2.m, a2.n) # 0

----------------------------------------------------------------------------
(* C22 (as stated): every per-thread accumulator (GT and JT of the J       *)
(* builder, KT of LinK and of COSX) is written during a parallel loop only *)
(* by the thread that owns it, and each is merged into the output of the   *)
(* builder exactly once per build.                                         *)
(* C22 (amended): every per-thread accumulator is written only by its      *)
(* owner.  GT, JT and the KT of COSX are each added to the builder's       *)
(* output exactly once per build, by the sequential code that follows      *)
(* their loop.  The KT of LinK is the scratch of the running task: its     *)
(* owner adds its stripeout elements to the shared K inside the parallel   *)
(* loop, once for every task of the thread that evaluated a quartet, so    *)
(* not at all or several times per build.                                  *)

\* the per-thread accumulators of the running builder
Accumulators == DOMAIN build.writers

\* no accumulator has been written by a thread other than its owner
OwnerOnly ==
    \A acc \in Accumulators, i \in 1..build.nthreads : build.writers[acc][i] \subseteq {i}

\* the number of times accumulator i has been added to the output
MergeCount(acc, i) == build.merged[acc][i]

\* the tasks of the LinK loop taken so far that evaluated a quartet
TouchedTasks == {ipair \in 1..(build.next - 1) : build.tasks[ipair].touched}

C22_MergedOncePerBuild ==
    /\ OwnerOnly
    /\ build.phase = "done"
           => \A acc \in Accumulators, i \in 1..build.nthreads : MergeCount(acc, i) = 1

C22_OwnedAndMerged ==
    /\ OwnerOnly
    /\ build.kind = "DFJ"
           => /\ \A i \in 1..build.nthreads :
                     /\ MergeCount("GT", i) = (IF build.phase = "forward" THEN 0 ELSE 1)
                     /\ MergeCount("JT", i) = (IF build.phase = "done" THEN 1 ELSE 0)
              /\ build.phase = "done"
                     => \A jki \in DOMAIN build.D :
                            /\ build.H[jki] = HVector(SumGT(build.GT, jki))
                            /\ J_ao_[jki]
                                   = hermitivitize(MatAdd(build.J[jki], SumKT(build.JT, jki)))
    /\ build.kind = "COSK"
           => /\ \A i \in 1..build.nthreads :
                     MergeCount("KT", i) = (IF build.phase = "done" THEN 1 ELSE 0)
              /\ build.phase = "done"
                     => \A jki \in DOMAIN build.D :
                            LET sum == MatAdd(build.K[jki], SumKT(build.KT, jki))
                            IN  K_ao_[jki] = IF lr_symmetric_ THEN hermitivitize(sum) ELSE sum
    /\ build.kind = "linK"
           => /\ SumFn([i \in 1..build.nthreads |-> MergeCount("KT", i)])
                     = Cardinality(TouchedTasks)
              /\ \A i \in 1..build.nthreads : MergeCount("KT", i) > 0 => i \in build.ran

\* a LinK build is over in which one thread ran two tasks that evaluated
\* quartets and another thread ran one
C22_Witness ==
    /\ build.kind = "linK" /\ build.phase = "done"
    /\ \E i \in 1..build.nthreads, j \in 1..build.nthreads :
           /\ i # j
           /\ MergeCount("KT", i) = 2 /\ build.writers.KT[i] = {i}
           /\ MergeCount("KT", j) = 1 /\ build.writers.KT[j] = {j}

----------------------------------------------------------------------------
(* C27: atom blocking of build_linK *)

\* the blocking is finished
Blocked == build.kind = "atoms" /\ build.phase = "blocked"

\* the shells of block a, and the shells centered on atom c
BlockShells(a) ==
    {P \in 0..(build.nshell - 1) :
        /\ build.shell_endpoints_for_atom[a] <= P
        /\ P < build.shell_endpoints_for_atom[a + 1]}

CenteredOn(c) == {P \in 0..(build.nshell - 1) : build.centers[P + 1] = c}

CentersUsed == Range(build.centers)

\* contiguous non-empty ranges from shell 0 to nshell
ContiguousPartition ==
    /\ build.natom = Len(build.shell_endpoints_for_atom) - 1
    /\ build.natom >= 1
    /\ build.shell_endpoints_for_atom[1] = 0
    /\ build.shell_endpoints_for_atom[build.natom + 1] = build.nshell
    /\ \A a \in 1..build.natom :
           build.shell_endpoints_for_atom[a] < build.shell_endpoints_for_atom[a + 1]

\* no block holds the shells of two atoms
NoMixedBlock ==
    \A a \in 1..build.natom : \A P, Q \in BlockShells(a) :
        build.centers[P + 1] = build.centers[Q + 1]

\* every block is the whole set of shells of one atom
OneAtomPerBlock ==
    \A a \in 1..build.natom : \E c \in CentersUsed : BlockShells(a) = CenteredOn(c)

\* every center up to the last one of the basis carries a shell
NoEmptyCenter == CentersUsed = 0..Max(CentersUsed)

\* C27 as stated: for every basis in center order the blocks are contiguous
\* ranges from shell 0 to nshell that partition the shells, and every block
\* holds exactly the shells of one atom.
C27_OneBlockPerAtom ==
    Blocked => ContiguousPartition /\ NoMixedBlock /\ OneAtomPerBlock

\* what the loop guarantees for every basis in center order: contiguous
\* non-empty ranges from shell 0 to nshell, no block with two atoms, and one
\* block per atom when every center index up to the last one carries a shell
BlocksOfOneAtom ==
    Blocked =>
        /\ ContiguousPartition
        /\ NoMixedBlock
        /\ NoEmptyCenter =>
               /\ OneAtomPerBlock
               /\ build.natom = Cardinality(CentersUsed)

\* a blocked basis of two atoms without empty center, one with two shells
TwoAtomsBlocked ==
    /\ Blocked
    /\ NoEmptyCenter
    /\ build.natom = 2
    /\ \E a \in 1..build.natom : Cardinality(BlockShells(a)) >= 2

============================================================================
